---- MODULE Spec2Model ----
(***************************************************************************)
(* Model of the gregorio-lsp core: the GABC parser's alternation pass, its *)
(* tag-nesting pass and the validator's quilisma rules.                    *)
(*                                                                         *)
(* Text is modelled as a sequence of one-character strings, so that the    *)
(* regular expressions of the source are evaluated character by character. *)
(***************************************************************************)
EXTENDS Integers, Sequences, FiniteSets, TLC

VARIABLES
  \* ---- GABCParser.validateAlternation (one run over one document) ----
  headers,            \* ast.headers: sequence of [name, value]
  musics,             \* syllable.music.content of every syllable, in order
  altPc,              \* position inside validateAlternation
  alternationPeriod,  \* local alternationPeriod (NaN when parseInt fails)
  syl,                \* index of the syllable of the outer for-loop
  snippets,           \* noteGroups[0].snippets of the current syllable
  idx,                \* index i of the snippet loop (0-based, as in the code)
  shouldBeNabc,       \* local shouldBeNabc of the last iteration
  isNabc,             \* local isNabc of the last iteration
  errors,             \* the errors array returned by validateAlternation
  \* ---- GABCParser.validateTags (one run over one document) ----
  texts,              \* syllable.text.content of every syllable (<<>>: no text)
  tagPc,              \* position inside validateTags
  tsyl,               \* index of the syllable of the forEach
  lastIndex,          \* tagPattern.lastIndex, as a 1-based position
  tagStack,           \* tagStack: sequence of [tag, syllable, position]
  tagErrors,          \* the errors array returned by validateTags
  \* ---- parse, then GABCValidator.validate: the music notation pass ----
  contents,           \* the content of every parenthesized group of the body
  enableSemanticValidation,  \* settings.enableSemanticValidation
  valPc,              \* position inside parseMusicSection / validate
  vsyl,               \* index of the syllable of the running loop
  musicIsNabc,        \* music.isNabc of the syllables parsed so far
  diagnostics         \* the diagnostics array of validate

altVars == <<headers, musics, altPc, alternationPeriod, syl, snippets, idx,
             shouldBeNabc, isNabc, errors>>

tagVars == <<texts, tagPc, tsyl, lastIndex, tagStack, tagErrors>>

valVars == <<contents, enableSemanticValidation, valPc, vsyl, musicIsNabc, diagnostics>>

\* the language server: one document, its settings, one validation request
VARIABLES lines, settings, request, srvPc, astHeaders, astSyllables,
          allErrors, parseResult, validated, published

srvVars == <<lines, settings, request, srvPc, astHeaders, astSyllables,
             allErrors, parseResult, validated, published>>

\* GABCParser.validateNABCContent over one group, with the NABCValidator
VARIABLES
  notationConfig,     \* nabcConfig of validateNotation
  nabcContent,        \* syllable.music.content of the group
  nabcPc,             \* position inside validateNABCContent / validateNABCSnippet
  nabcMatches,        \* nabcMatches without their delimiters
  nabcIdx,            \* index of the match of the forEach (1-based)
  nabcNeumes,         \* neumes of the snippet being validated
  nabcDiagnostics,    \* this.diagnostics of the NABCValidator
  nabcErrors          \* the errors array returned by validateNABCContent

nabcVars == <<notationConfig, nabcContent, nabcPc, nabcMatches, nabcIdx, nabcNeumes,
              nabcDiagnostics, nabcErrors>>

\* the language server: the open documents, the settings cache and the
\* validations suspended at await getDocumentSettings(...)
VARIABLES
  hasConfigurationCapability,  \* set once by onInitialize
  documents,          \* the URIs of documents.all(), in the order they were opened
  documentSettings,   \* the Map documentSettings: URI -> promise (its number)
  configurationRequests,  \* the getConfiguration promises that are not settled
  awaiting,           \* the suspended calls, [uri, request, promise], oldest first
  sentDiagnostics,    \* the URIs of the sendDiagnostics calls made so far
  promiseCount,       \* number of getConfiguration promises created
  eventCount          \* number of client events handled

lifeVars == <<hasConfigurationCapability, documents, documentSettings,
              configurationRequests, awaiting, sentDiagnostics, promiseCount, eventCount>>

vars == <<altVars, tagVars, valVars, srvVars, nabcVars, lifeVars>>

\* what each pass leaves alone: the state of the other passes
notAltVars == <<tagVars, valVars, srvVars, nabcVars, lifeVars>>
notTagVars == <<altVars, valVars, srvVars, nabcVars, lifeVars>>
notValVars == <<altVars, tagVars, srvVars, nabcVars, lifeVars>>
notSrvVars == <<altVars, tagVars, valVars, nabcVars, lifeVars>>
notNabcVars == <<altVars, tagVars, valVars, srvVars, lifeVars>>
notLifeVars == <<altVars, tagVars, valVars, srvVars, nabcVars>>

----------------------------------------------------------------------------
(* Bounds of the model *)

\* largest nabc-lines value written in a header
MaxPeriod == 3
\* most snippets per group when the snippets come from the full vocabulary
MaxFull == 2
\* most snippets per group when the snippets come from the two-word vocabulary
MaxLong == 6
\* most tags in the generated syllable texts of one document
MaxTags == 4
\* most syllables of a document given to the validator
MaxValSyllables == 2
MaxHeaderLines == 2
\* most NABC snippets after the GABC snippet of a group given to validateNABCContent
MaxNabcSnippets == 2
\* most client events (open, change, close, configuration change, pull) of one run
MaxEvents == 4
MaxBodyLines == 1

----------------------------------------------------------------------------
(* Characters and regular-expression helpers *)

Lower == {"a","b","c","d","e","f","g","h","i","j","k","l","m",
          "n","o","p","q","r","s","t","u","v","w","x","y","z"}
Upper == {"A","B","C","D","E","F","G","H","I","J","K","L","M",
          "N","O","P","Q","R","S","T","U","V","W","X","Y","Z"}
Digit == {"0","1","2","3","4","5","6","7","8","9"}
WordChar == Lower \cup Upper \cup Digit \cup {"_"}
WhiteSpace == {" ", "\t", "\n", "\r"}

\* the backtick character (no string literal of TLA+ can hold it)
Backtick == "BACKTICK"

\* NaN of JavaScript numbers: a value no parseInt of unsigned input returns
NaN == -1

\* a literal word as a pattern: one singleton class per character
Lit(w) == [k \in 1..Len(w) |-> {w[k]}]

\* pat (a sequence of character classes) matches s at position p
MatchAt(s, p, pat) ==
  /\ p >= 1
  /\ p + Len(pat) - 1 <= Len(s)
  /\ \A k \in 1..Len(pat) : s[p + k - 1] \in pat[k]

\* RegExp.test for a pattern without anchors
Contains(s, pat) == \E p \in 1..Len(s) : MatchAt(s, p, pat)

IsWordAt(s, p) == p >= 1 /\ p <= Len(s) /\ s[p] \in WordChar

\* \b between the characters p-1 and p
Boundary(s, p) == IsWordAt(s, p - 1) # IsWordAt(s, p)

\* /\b(w)\b/.test(s)
ContainsWord(s, w) ==
  \E p \in 1..Len(s) :
    /\ MatchAt(s, p, Lit(w))
    /\ Boundary(s, p)
    /\ Boundary(s, p + Len(w))

\* s.trim() === ''
IsBlank(s) == \A k \in 1..Len(s) : s[k] \in WhiteSpace

DigitValue(c) ==
  CASE c = "0" -> 0 [] c = "1" -> 1 [] c = "2" -> 2 [] c = "3" -> 3
    [] c = "4" -> 4 [] c = "5" -> 5 [] c = "6" -> 6 [] c = "7" -> 7
    [] c = "8" -> 8 [] c = "9" -> 9

DigitChar(n) == <<"0","1","2","3","4","5","6","7","8","9">>[n + 1]

\* value of the digits s[p..] read so far as acc
RECURSIVE ParseDigits(_, _, _)
ParseDigits(s, p, acc) ==
  IF p <= Len(s) /\ s[p] \in Digit
  THEN ParseDigits(s, p + 1, acc * 10 + DigitValue(s[p]))
  ELSE acc

\* index of the first character of s at or after p that is no white space
RECURSIVE SkipSpace(_, _)
SkipSpace(s, p) ==
  IF p <= Len(s) /\ s[p] \in WhiteSpace THEN SkipSpace(s, p + 1) ELSE p

\* parseInt(s, 10) for unsigned input: leading white space, then digits
ParseInt(s) ==
  LET p == SkipSpace(s, 1)
  IN IF p <= Len(s) /\ s[p] \in Digit THEN ParseDigits(s, p, 0) ELSE NaN

\* s.replace(/;$/, '')
StripSemicolon(s) ==
  IF Len(s) > 0 /\ s[Len(s)] = ";" THEN SubSeq(s, 1, Len(s) - 1) ELSE s

\* Array.join of a sequence of strings
RECURSIVE Join(_, _)
Join(parts, sep) ==
  IF Len(parts) = 0 THEN <<>>
  ELSE IF Len(parts) = 1 THEN parts[1]
  ELSE parts[1] \o sep \o Join(Tail(parts), sep)

\* number of occurrences of the character c in s
CountChar(s, c) == Cardinality({k \in 1..Len(s) : s[k] = c})

----------------------------------------------------------------------------
(* Messages and codes of src/src/types/index.ts *)

PIPE_WITHOUT_NABC_LINES ==
  "You used character \"|\" in gabc without setting \"nabc-lines\" parameter. Please set it in your gabc header."
NABC_WITHOUT_ALTERNATION ==
  "NABC notation detected without proper alternation. Verify nabc-lines configuration and alternation pattern."
INVALID_PIPE_WITHOUT_NABC == "invalid_pipe_without_nabc"
NABC_IN_GABC_ONLY_MODE == "nabc_in_gabc_only_mode"
ALTERNATION_VIOLATION == "alternation_violation"

SeverityError == 1
SeverityWarning == 2
SeverityInformation == 3

----------------------------------------------------------------------------
(* GABCParser: snippet splitting and classification *)

\* String.split('|'): every '|' ends a piece, empty pieces are kept
RECURSIVE SplitPipe(_, _)
SplitPipe(s, cur) ==
  IF Len(s) = 0 THEN <<cur>>
  ELSE IF Head(s) = "|" THEN <<cur>> \o SplitPipe(Tail(s), <<>>)
  ELSE SplitPipe(Tail(s), Append(cur, Head(s)))

\* variant of parseNoteGroups that drops empty pieces
RECURSIVE DropEmpty(_)
DropEmpty(parts) ==
  IF Len(parts) = 0 THEN <<>>
  ELSE IF Len(Head(parts)) = 0 THEN DropEmpty(Tail(parts))
  ELSE <<Head(parts)>> \o DropEmpty(Tail(parts))

parseNoteGroups_dropEmpty(musicContent) ==
  IF \E k \in 1..Len(musicContent) : musicContent[k] = "|"
  THEN DropEmpty(SplitPipe(musicContent, <<>>))
  ELSE <<musicContent>>

parseNoteGroups(musicContent) ==
  IF \E k \in 1..Len(musicContent) : musicContent[k] = "|"
  THEN SplitPipe(musicContent, <<>>)
  ELSE <<musicContent>>

\* variant of shouldSnippetBeNabc that forgets the leading GABC snippet
shouldSnippetBeNabc_noOffset(snippetIndex, period) ==
  IF period = 0 THEN FALSE
  ELSE IF snippetIndex = 0 THEN FALSE
  ELSE IF period = NaN THEN FALSE
  ELSE (snippetIndex \div period) % 2 = 0

\* x % 2 === 0 for x = Math.floor(a / b), with NaN propagating
shouldSnippetBeNabc(snippetIndex, period) ==
  IF period = 0 THEN FALSE
  ELSE IF snippetIndex = 0 THEN FALSE
  ELSE IF period = NaN THEN FALSE
  ELSE ((snippetIndex - 1) \div period) % 2 = 0

nabcPatterns ==
  << <<Lower, Lower, Lower, Digit>>,            \* /[a-z]{3,}[0-9]/
     <<Lower, {"p"}, {"t"}, Digit>>,            \* /[a-z]+pt[0-9]/
     <<{"l"}, {"s"}, Digit>>,                   \* /lss?[0-9]/
     <<{"l"}, {"s"}, {"s"}, Digit>>,
     <<{"l"}, {"s"}, {"i"}, {"m"}, Digit>>,     \* /lsim[0-9]/
     Lit(<<"q","l","h","h">>),                  \* /qlhh/
     <<{"t"}, {"a"}, {"l"}, {"s"}, {"e"}, Digit>>,  \* /talse[0-9]/
     Lit(<<"c","l","S","h","i">>),              \* /clShi|clhi/
     Lit(<<"c","l","h","i">>),
     Lit(<<"s","t",">","h","i">>),              \* /st>hi/
     <<{"v"}, {"i"}, {">"}, Digit>>,            \* /vi>[0-9]/
     <<{"p"}, {"f"}, Digit>>,                   \* /pf[0-9]/
     Lit(<<Backtick, Backtick>>),               \* two or more backticks
     <<Digit, Lower>>,                          \* /[0-9][a-z]/
     <<{"g"}, Lower, Lower>> >>                 \* /g[a-z]{2,}/

nabcWords == { <<"u","n">>, <<"t","a">>, <<"v","i">> }   \* /\b(un|ta|vi)\b/

isNabcSnippet(snippet) ==
  IF Len(snippet) = 0 \/ IsBlank(snippet) THEN FALSE
  ELSE \/ \E k \in 1..Len(nabcPatterns) : Contains(snippet, nabcPatterns[k])
       \/ \E w \in nabcWords : ContainsWord(snippet, w)

\* h.name.toLowerCase() === 'nabc-lines' for the header names of the model
IsNabcLinesName(name) == name \in {"nabc-lines", "NABC-Lines"}

\* ast.headers.find(h => h.name.toLowerCase() === 'nabc-lines'): the first one
RECURSIVE FindNabcLines(_)
FindNabcLines(hs) ==
  IF Len(hs) = 0 THEN <<>>
  ELSE IF IsNabcLinesName(hs[1].name) THEN <<hs[1]>>
  ELSE FindNabcLines(Tail(hs))

extractNABCConfiguration(hs) ==
  LET found == FindNabcLines(hs)
  IN IF Len(found) = 0
     THEN [enabled |-> FALSE, hasValue |-> FALSE, headerValue |-> <<>>]
     ELSE LET value == ParseInt(found[1].value)
          IN [enabled |-> (value # NaN /\ value > 0),
              hasValue |-> TRUE,
              headerValue |-> found[1].value]

\* parseInt((nabcConfig.headerValue || '0').replace(/;$/, ''), 10)
PeriodOf(nabcConfig) ==
  IF ~nabcConfig.hasValue \/ Len(nabcConfig.headerValue) = 0
  THEN 0
  ELSE ParseInt(StripSemicolon(nabcConfig.headerValue))

AlternationMessage(should, found, i) ==
  << "Expected ", IF should THEN "NABC" ELSE "GABC",
     " notation but found ", IF found THEN "NABC" ELSE "GABC",
     " in group snippet ", i + 1 >>

----------------------------------------------------------------------------
(* Inputs of the alternation pass *)

FullVocab ==
  { <<>>,
    <<" ">>,
    <<"f">>,
    <<"c","e">>,
    <<"g","f">>,
    <<"g","w","h">>,
    <<"g","!","w","h">>,
    <<"f","w","i">>,
    <<"e","w","j">>,
    <<"f","3">>,
    <<"u","n">>,
    <<"t","a">>,
    <<"c","e","/","f","g","f">>,
    <<"p","e","G","l","s","a","6","t","o","h","l">>,
    <<"t","o","p","p","t","2","l","s","s","2","l","s","i","m","2">> }

LongVocab == { <<"f">>, <<"u","n">> }

\* the groups of README.md "Test Cases"
ReadmeGroups ==
  { << <<"c","e","/","f","g","f">>,
       <<"p","e","G","l","s","a","6","t","o","h","l">>,
       <<"t","o","p","p","t","2","l","s","s","2","l","s","i","m","2">> >>,
    << <<"f">>, <<"u","n">>, <<"t","a">> >>,
    << <<"f">>, <<"g">>, <<"h">> >> }

SeqsUpTo(S, n) == UNION { [1..k -> S] : k \in 1..n }

GroupContents ==
  { Join(ps, <<"|">>) :
      ps \in SeqsUpTo(FullVocab, MaxFull) \cup SeqsUpTo(LongVocab, MaxLong)
             \cup ReadmeGroups }

\* documents of one group, and documents of two short groups
ShortContents == { Join(ps, <<"|">>) : ps \in SeqsUpTo(LongVocab, 2) }

MusicDocs ==
  { <<c>> : c \in GroupContents }
    \cup { <<c1, c2>> : c1 \in ShortContents, c2 \in ShortContents }

HeaderValues == { <<DigitChar(n)>> : n \in 0..MaxPeriod } \cup { <<"x">> }

\* a header defined twice (part_004, "Duplicate Header Definitions")
DuplicateValues == { <<"0">>, <<"1">>, <<"2">> }

HeaderLists ==
  { <<>>, << [name |-> "name", value |-> <<"T">>] >> }
    \cup { << [name |-> "nabc-lines", value |-> v] >> : v \in HeaderValues }
    \cup { << [name |-> "nabc-lines", value |-> v1],
              [name |-> "nabc-lines", value |-> v2] >> :
              v1 \in DuplicateValues, v2 \in DuplicateValues }

----------------------------------------------------------------------------
(* GABCParser.validateAlternation as a step machine *)

AltInit ==
  /\ headers \in HeaderLists
  /\ musics \in MusicDocs
  /\ altPc = "start"
  /\ alternationPeriod = 0
  /\ syl = 1
  /\ snippets = <<>>
  /\ idx = 0
  /\ shouldBeNabc = FALSE
  /\ isNabc = FALSE
  /\ errors = <<>>

\* const alternationPeriod = parseInt(...)
AltBegin ==
  /\ altPc = "start"
  /\ alternationPeriod' = PeriodOf(extractNABCConfiguration(headers))
  /\ altPc' = "syllable"
  /\ UNCHANGED <<headers, musics, syl, snippets, idx, shouldBeNabc, isNabc, errors>>
  /\ UNCHANGED notAltVars

\* const noteGroups = this.parseNoteGroups(syllable.music.content)
AltSplit ==
  /\ altPc = "syllable"
  /\ syl <= Len(musics)
  /\ snippets' = parseNoteGroups(musics[syl])
  /\ idx' = 0
  /\ altPc' = IF alternationPeriod = 0 THEN "pipe" ELSE "alternation"
  /\ UNCHANGED <<headers, musics, alternationPeriod, syl, shouldBeNabc, isNabc, errors>>
  /\ UNCHANGED notAltVars

\* variant of AltPipe that reports one error for every '|' of the group
AltPipe_perPipe ==
  /\ altPc = "pipe"
  /\ errors' = errors \o [k \in 1..(Len(snippets) - 1) |->
                             [message |-> PIPE_WITHOUT_NABC_LINES,
                              range |-> syl,
                              severity |-> SeverityError,
                              code |-> INVALID_PIPE_WITHOUT_NABC]]
  /\ altPc' = "gabconly"
  /\ UNCHANGED <<headers, musics, alternationPeriod, syl, snippets, idx,
                 shouldBeNabc, isNabc>>
  /\ UNCHANGED notAltVars

\* if (group.snippets.length > 1) errors.push(PIPE_WITHOUT_NABC_LINES)
AltPipe ==
  /\ altPc = "pipe"
  /\ errors' = IF Len(snippets) > 1
               THEN Append(errors, [message |-> PIPE_WITHOUT_NABC_LINES,
                                    range |-> syl,
                                    severity |-> SeverityError,
                                    code |-> INVALID_PIPE_WITHOUT_NABC])
               ELSE errors
  /\ altPc' = "gabconly"
  /\ UNCHANGED <<headers, musics, alternationPeriod, syl, snippets, idx,
                 shouldBeNabc, isNabc>>
  /\ UNCHANGED notAltVars

\* for (const snippet of group.snippets) if (this.isNabcSnippet(snippet)) ...
AltGabcOnly ==
  /\ altPc = "gabconly"
  /\ idx < Len(snippets)
  /\ isNabc' = isNabcSnippet(snippets[idx + 1])
  /\ errors' = IF isNabc'
               THEN Append(errors, [message |-> NABC_WITHOUT_ALTERNATION,
                                    range |-> syl,
                                    severity |-> SeverityError,
                                    code |-> NABC_IN_GABC_ONLY_MODE])
               ELSE errors
  /\ idx' = idx + 1
  /\ UNCHANGED <<headers, musics, altPc, alternationPeriod, syl, snippets,
                 shouldBeNabc>>
  /\ UNCHANGED notAltVars

\* variant of AltCheck whose message carries the 0-based index
AltCheck_zeroBased ==
  /\ altPc = "alternation"
  /\ idx < Len(snippets)
  /\ shouldBeNabc' = shouldSnippetBeNabc(idx, alternationPeriod)
  /\ isNabc' = isNabcSnippet(snippets[idx + 1])
  /\ errors' = IF shouldBeNabc' # isNabc'
               THEN Append(errors,
                           [message |-> AlternationMessage(shouldBeNabc', isNabc', idx - 1),
                            range |-> syl,
                            severity |-> SeverityError,
                            code |-> ALTERNATION_VIOLATION])
               ELSE errors
  /\ idx' = idx + 1
  /\ UNCHANGED <<headers, musics, altPc, alternationPeriod, syl, snippets>>
  /\ UNCHANGED notAltVars

\* one iteration of for (let i = 0; i < snippets.length; i++)
AltCheck ==
  /\ altPc = "alternation"
  /\ idx < Len(snippets)
  /\ shouldBeNabc' = shouldSnippetBeNabc(idx, alternationPeriod)
  /\ isNabc' = isNabcSnippet(snippets[idx + 1])
  /\ errors' = IF shouldBeNabc' # isNabc'
               THEN Append(errors,
                           [message |-> AlternationMessage(shouldBeNabc', isNabc', idx),
                            range |-> syl,
                            severity |-> SeverityError,
                            code |-> ALTERNATION_VIOLATION])
               ELSE errors
  /\ idx' = idx + 1
  /\ UNCHANGED <<headers, musics, altPc, alternationPeriod, syl, snippets>>
  /\ UNCHANGED notAltVars

\* the snippet loop of the group has ended: next syllable
AltNextSyllable ==
  /\ altPc \in {"gabconly", "alternation"}
  /\ idx = Len(snippets)
  /\ syl' = syl + 1
  /\ altPc' = "syllable"
  /\ UNCHANGED <<headers, musics, alternationPeriod, snippets, idx,
                 shouldBeNabc, isNabc, errors>>
  /\ UNCHANGED notAltVars

\* return errors
AltReturn ==
  /\ altPc = "syllable"
  /\ syl > Len(musics)
  /\ altPc' = "done"
  /\ UNCHANGED <<headers, musics, alternationPeriod, syl, snippets, idx,
                 shouldBeNabc, isNabc, errors>>
  /\ UNCHANGED notAltVars

AltNext ==
  \/ AltBegin
  \/ AltSplit
  \/ AltPipe
  \/ AltGabcOnly
  \/ AltCheck
  \/ AltNextSyllable
  \/ AltReturn

\* the tag pass does not run
TagIdle ==
  /\ texts = <<>>
  /\ tagPc = "idle"
  /\ tsyl = 1
  /\ lastIndex = 1
  /\ tagStack = <<>>
  /\ tagErrors = <<>>

\* neither parse nor validate runs
ValIdle ==
  /\ contents = <<>>
  /\ enableSemanticValidation = FALSE
  /\ valPc = "idle"
  /\ vsyl = 1
  /\ musicIsNabc = <<>>
  /\ diagnostics = <<>>

\* the server is not running
SrvIdle ==
  /\ lines = <<>>
  /\ settings = [maxNumberOfProblems |-> 0, enableSemanticValidation |-> FALSE,
                 enableNabcLinesValidation |-> FALSE, strictAlternationChecking |-> FALSE]
  /\ request = "none"
  /\ srvPc = "off"
  /\ astHeaders = <<>>
  /\ astSyllables = <<>>
  /\ allErrors = <<>>
  /\ parseResult = [success |-> FALSE, hasAst |-> FALSE, errors |-> <<>>]
  /\ validated = <<>>
  /\ published = <<>>

\* validateNABCContent does not run
NabcIdle ==
  /\ notationConfig = [enabled |-> FALSE, hasValue |-> FALSE, headerValue |-> <<>>]
  /\ nabcContent = <<>>
  /\ nabcPc = "idle"
  /\ nabcMatches = <<>>
  /\ nabcIdx = 1
  /\ nabcNeumes = <<>>
  /\ nabcDiagnostics = <<>>
  /\ nabcErrors = <<>>

\* no document was ever opened
LifeIdle ==
  /\ hasConfigurationCapability = FALSE
  /\ documents = <<>>
  /\ documentSettings = <<>>
  /\ configurationRequests = {}
  /\ awaiting = <<>>
  /\ sentDiagnostics = <<>>
  /\ promiseCount = 0
  /\ eventCount = 0

Init == AltInit /\ TagIdle /\ ValIdle /\ SrvIdle /\ NabcIdle /\ LifeIdle

Next == AltNext

Spec == Init /\ [][Next]_vars

----------------------------------------------------------------------------
(* GABCParser.validateTags: the tag pattern *)

UNCLOSED_TAG_PREFIX == "unclosed tag: <"
UNMATCHED_CLOSING_TAG_PREFIX == "unmatched closing tag: </"

\* GREGORIO_ERROR_MESSAGES.UNCLOSED_TAG.replace('%s', name)
UnclosedTagMessage(name) == <<UNCLOSED_TAG_PREFIX, name, ">">>

\* GREGORIO_ERROR_MESSAGES.UNMATCHED_CLOSING_TAG.replace('%s', name)
UnmatchedClosingTagMessage(name) == <<UNMATCHED_CLOSING_TAG_PREFIX, name, ">">>

validTags ==
  { <<"b">>, <<"i">>, <<"s","c">>, <<"u","l">>, <<"v">>, <<"c">>, <<"e">>,
    <<"n","l","b","a">>, <<"p","r">>, <<"a","l","t">> }

Letter == Lower \cup Upper
AlNum == Letter \cup Digit

UpperLetters == <<"A","B","C","D","E","F","G","H","I","J","K","L","M",
                  "N","O","P","Q","R","S","T","U","V","W","X","Y","Z">>
LowerLetters == <<"a","b","c","d","e","f","g","h","i","j","k","l","m",
                  "n","o","p","q","r","s","t","u","v","w","x","y","z">>

\* String.toLowerCase
ToLowerChar(c) ==
  IF c \in Upper
  THEN LowerLetters[CHOOSE k \in 1..26 : UpperLetters[k] = c]
  ELSE c

ToLowerCase(s) == [k \in 1..Len(s) |-> ToLowerChar(s[k])]

\* last position of the longest run of characters of cls that starts at p
\* (p - 1 when s[p] is not in cls)
RECURSIVE RunEnd(_, _, _)
RunEnd(s, p, cls) ==
  IF p <= Len(s) /\ s[p] \in cls THEN RunEnd(s, p + 1, cls) ELSE p - 1

\* first position at or after p that holds the character c, 0 when there is none
RECURSIVE IndexOfChar(_, _, _)
IndexOfChar(s, p, c) ==
  IF p > Len(s) THEN 0
  ELSE IF s[p] = c THEN p
  ELSE IndexOfChar(s, p + 1, c)

NoTag == [found |-> FALSE, index |-> 0, last |-> 0, closing |-> FALSE, name |-> <<>>]

\* the match of /<\/?([a-zA-Z][a-zA-Z0-9]*)\b[^>]*>/ that starts at p, if any
TagAt(s, p) ==
  IF p > Len(s) \/ s[p] # "<" THEN NoTag
  ELSE
    LET closing == p + 1 <= Len(s) /\ s[p + 1] = "/"
        first == IF closing THEN p + 2 ELSE p + 1
    IN IF first > Len(s) \/ s[first] \notin Letter THEN NoTag
       ELSE
         LET lastOfName == RunEnd(s, first, AlNum)
             gt == IndexOfChar(s, lastOfName + 1, ">")
         IN IF Boundary(s, lastOfName + 1) /\ gt > 0
            THEN [found |-> TRUE, index |-> p, last |-> gt, closing |-> closing,
                  name |-> ToLowerCase(SubSeq(s, first, lastOfName))]
            ELSE NoTag

\* tagPattern.exec(textContent) with lastIndex = from: the leftmost match
RECURSIVE NextTag(_, _)
NextTag(s, from) ==
  IF from > Len(s) THEN NoTag
  ELSE IF TagAt(s, from).found THEN TagAt(s, from)
  ELSE NextTag(s, from + 1)

\* variant of IsValidTag that accepts every tag name
IsValidTag_any(name) == TRUE

\* validTags.includes(tagName)
IsValidTag(name) == name \in validTags

\* tagStack.findIndex(open => open.tag === tagName), 1-based, 0 for -1
RECURSIVE FindIndex(_, _, _)
FindIndex(stack, name, k) ==
  IF k > Len(stack) THEN 0
  ELSE IF stack[k].tag = name THEN k
  ELSE FindIndex(stack, name, k + 1)

TagError(message, s) == [message |-> message, range |-> s, severity |-> SeverityError]

\* variant of HandleTag: a cross-nesting closer keeps its own opener on the stack
HandleTag_keepMatch(stack, errs, m, s) ==
  IF ~IsValidTag(m.name) THEN [stack |-> stack, errors |-> errs]
  ELSE IF m.closing
  THEN IF Len(stack) = 0
       THEN [stack |-> stack,
             errors |-> Append(errs, TagError(UnmatchedClosingTagMessage(m.name), s))]
       ELSE IF stack[Len(stack)].tag = m.name
       THEN [stack |-> SubSeq(stack, 1, Len(stack) - 1), errors |-> errs]
       ELSE LET matchingIndex == FindIndex(stack, m.name, 1)
            IN IF matchingIndex = 0
               THEN [stack |-> stack,
                     errors |-> Append(errs, TagError(UnmatchedClosingTagMessage(m.name), s))]
               ELSE [stack |-> SubSeq(stack, 1, matchingIndex),
                     errors |-> errs \o
                       [k \in 1..(Len(stack) - matchingIndex) |->
                          TagError(UnclosedTagMessage(stack[Len(stack) - k + 1].tag),
                                   stack[Len(stack) - k + 1].syllable)]]
  ELSE [stack |-> Append(stack, [tag |-> m.name, syllable |-> s, position |-> m.index - 1]),
        errors |-> errs]

\* variant of HandleTag: a closer at the top of the stack does not pop
HandleTag_noPop(stack, errs, m, s) ==
  IF ~IsValidTag(m.name) THEN [stack |-> stack, errors |-> errs]
  ELSE IF m.closing
  THEN IF Len(stack) = 0
       THEN [stack |-> stack,
             errors |-> Append(errs, TagError(UnmatchedClosingTagMessage(m.name), s))]
       ELSE [stack |-> stack, errors |-> errs]
  ELSE [stack |-> Append(stack, [tag |-> m.name, syllable |-> s, position |-> m.index - 1]),
        errors |-> errs]

\* the body of the while loop for one match m found in syllable s
HandleTag(stack, errs, m, s) ==
  IF ~IsValidTag(m.name) THEN [stack |-> stack, errors |-> errs]
  ELSE IF m.closing
  THEN IF Len(stack) = 0
       THEN [stack |-> stack,
             errors |-> Append(errs, TagError(UnmatchedClosingTagMessage(m.name), s))]
       ELSE IF stack[Len(stack)].tag = m.name
       THEN [stack |-> SubSeq(stack, 1, Len(stack) - 1), errors |-> errs]
       ELSE LET matchingIndex == FindIndex(stack, m.name, 1)
            IN IF matchingIndex = 0
               THEN [stack |-> stack,
                     errors |-> Append(errs, TagError(UnmatchedClosingTagMessage(m.name), s))]
               ELSE [stack |-> SubSeq(stack, 1, matchingIndex - 1),
                     errors |-> errs \o
                       [k \in 1..(Len(stack) - matchingIndex) |->
                          TagError(UnclosedTagMessage(stack[Len(stack) - k + 1].tag),
                                   stack[Len(stack) - k + 1].syllable)]]
  ELSE [stack |-> Append(stack, [tag |-> m.name, syllable |-> s, position |-> m.index - 1]),
        errors |-> errs]

\* variant of RemainingUnclosed that reports only the top of the stack
RemainingUnclosed_topOnly(stack) ==
  IF Len(stack) = 0 THEN <<>>
  ELSE << TagError(UnclosedTagMessage(stack[Len(stack)].tag), stack[Len(stack)].syllable) >>

\* tagStack.forEach(openTag => errors.push(unclosed tag))
RemainingUnclosed(stack) ==
  [k \in 1..Len(stack) |-> TagError(UnclosedTagMessage(stack[k].tag), stack[k].syllable)]

\* validateTags from the state (stack, errs), with the scan at position from of
\* syllable s: the result of the whole function
RECURSIVE RunTags(_, _, _, _, _)
RunTags(ts, s, from, stack, errs) ==
  IF s > Len(ts) THEN [stack |-> stack, errors |-> errs \o RemainingUnclosed(stack)]
  ELSE IF Len(ts[s]) = 0 THEN RunTags(ts, s + 1, 1, stack, errs)
  ELSE LET m == NextTag(ts[s], from)
       IN IF ~m.found THEN RunTags(ts, s + 1, 1, stack, errs)
          ELSE LET r == HandleTag(stack, errs, m, s)
               IN RunTags(ts, s, m.last + 1, r.stack, r.errors)

validateTags(ts) == RunTags(ts, 1, 1, <<>>, <<>>).errors

----------------------------------------------------------------------------
(* Inputs of the tag pass *)

TagTokens ==
  { <<"<","b",">">>, <<"<","/","b",">">>,
    <<"<","i",">">>, <<"<","/","i",">">>,
    <<"<","f","o","o",">">>, <<"<","/","f","o","o",">">> }

\* the token sequences of at most n tokens, the empty one included
TokenSeqs(n) == UNION { [1..k -> TagTokens] : k \in 0..n }

RECURSIVE Concat(_)
Concat(parts) == IF Len(parts) = 0 THEN <<>> ELSE Head(parts) \o Concat(Tail(parts))

\* the texts of tag_validation tests: plain text between tags, an upper-case
\* name, an attribute, tags that are not on the white list
TestTexts ==
  { << <<"K","y","<","b",">","r","i">>, <<"e">> >>,
    << <<"K","y","<","b",">","r","i">>, <<"e","<","/","b",">">> >>,
    << <<"K","y","<","b",">","r","i","<","i",">","e","<","/","b",">","l","e","<","/","i",">">> >>,
    << <<"K","y","<","b",">","r","i","<","i",">","e","<","s","c",">","l","e","<","/","s","c",">",
         "<","/","i",">","i","<","/","b",">">> >>,
    << <<"<","B",">","x","<","/","b",">">> >>,
    << <<"<","b"," ","x",">","y","<","/","b",">">> >>,
    << <<"<","b","i",">","<","b","_",">","<","1",">","a","<","b">> >> }

\* documents of one syllable, and of two syllables that share one token sequence
TagDocs ==
  { <<Concat(ts)>> : ts \in TokenSeqs(MaxTags) }
    \cup UNION { { <<Concat(SubSeq(ts, 1, k)), Concat(SubSeq(ts, k + 1, Len(ts)))>> :
                     k \in 0..Len(ts) } : ts \in TokenSeqs(MaxTags) }
    \cup TestTexts

----------------------------------------------------------------------------
(* GABCParser.validateTags as a step machine *)

TagInit ==
  /\ texts \in TagDocs
  /\ tagPc = "scan"
  /\ tsyl = 1
  /\ lastIndex = 1
  /\ tagStack = <<>>
  /\ tagErrors = <<>>

\* if (!syllable.text) return
TagSkipSyllable ==
  /\ tagPc = "scan"
  /\ tsyl <= Len(texts)
  /\ Len(texts[tsyl]) = 0
  /\ tsyl' = tsyl + 1
  /\ lastIndex' = 1
  /\ UNCHANGED <<texts, tagPc, tagStack, tagErrors>>
  /\ UNCHANGED notTagVars

\* one iteration of while ((match = tagPattern.exec(textContent)) !== null)
TagMatch ==
  /\ tagPc = "scan"
  /\ tsyl <= Len(texts)
  /\ Len(texts[tsyl]) > 0
  /\ LET m == NextTag(texts[tsyl], lastIndex)
     IN /\ m.found
        /\ LET r == HandleTag(tagStack, tagErrors, m, tsyl)
           IN /\ tagStack' = r.stack
              /\ tagErrors' = r.errors
        /\ lastIndex' = m.last + 1
  /\ UNCHANGED <<texts, tagPc, tsyl>>
  /\ UNCHANGED notTagVars

\* exec returned null: the forEach moves to the next syllable
TagEndSyllable ==
  /\ tagPc = "scan"
  /\ tsyl <= Len(texts)
  /\ Len(texts[tsyl]) > 0
  /\ ~NextTag(texts[tsyl], lastIndex).found
  /\ tsyl' = tsyl + 1
  /\ lastIndex' = 1
  /\ UNCHANGED <<texts, tagPc, tagStack, tagErrors>>
  /\ UNCHANGED notTagVars

\* the forEach has ended
TagLoopEnd ==
  /\ tagPc = "scan"
  /\ tsyl > Len(texts)
  /\ tagPc' = "remaining"
  /\ UNCHANGED <<texts, tsyl, lastIndex, tagStack, tagErrors>>
  /\ UNCHANGED notTagVars

\* check for any remaining unclosed tags; return errors
TagRemaining ==
  /\ tagPc = "remaining"
  /\ tagErrors' = tagErrors \o RemainingUnclosed(tagStack)
  /\ tagPc' = "done"
  /\ UNCHANGED <<texts, tsyl, lastIndex, tagStack>>
  /\ UNCHANGED notTagVars

\* the alternation pass does not run
AltIdle ==
  /\ headers = <<>>
  /\ musics = <<>>
  /\ altPc = "idle"
  /\ alternationPeriod = 0
  /\ syl = 1
  /\ snippets = <<>>
  /\ idx = 0
  /\ shouldBeNabc = FALSE
  /\ isNabc = FALSE
  /\ errors = <<>>

InitTags == TagInit /\ AltIdle /\ ValIdle /\ SrvIdle /\ NabcIdle /\ LifeIdle

NextTags ==
  \/ TagSkipSyllable
  \/ TagMatch
  \/ TagEndSyllable
  \/ TagLoopEnd
  \/ TagRemaining

SpecTags == InitTags /\ [][NextTags]_vars

----------------------------------------------------------------------------
(* GABCParser.detectNABC and GABCValidator: the music notation pass *)

HexDigit == Digit \cup {"a","b","c","d","e","f"} \cup {"A","B","C","D","E","F"}
ClefDigit == {"1","2","3","4"}
PitchLetter == {"a","b","c","d","e","f","g","h","i","j","k","l","m"}
PitchLetterAnyCase ==
  PitchLetter \cup {"A","B","C","D","E","F","G","H","I","J","K","L","M"}

\* /head run+ tail/.test(s): one character of head, one or more of run, then tail
ContainsRun(s, head, run, tail) ==
  \E p \in 1..Len(s) :
    /\ s[p] \in head
    /\ \E q \in (p + 1)..Len(s) :
         /\ \A k \in (p + 1)..q : s[k] \in run
         /\ MatchAt(s, q + 1, tail)

\* /open[^close]+close/.test(s)
ContainsBracketed(s, open, close) ==
  \E p \in 1..Len(s) :
    /\ s[p] = open
    /\ p + 1 <= Len(s)
    /\ s[p + 1] # close
    /\ IndexOfChar(s, p + 2, close) > 0

detectNABC(musicContent) ==
  \* nabcPatterns
  \/ Contains(musicContent, <<ClefDigit, PitchLetter>>)
  \/ ContainsRun(musicContent, {"n", "N"}, HexDigit, <<>>)
  \/ ContainsRun(musicContent, {"g", "G"}, Letter, <<>>)
  \/ ContainsRun(musicContent, {"e", "E"}, Letter, <<>>)
  \/ ContainsRun(musicContent, {"+", "-"}, Digit, <<>>)
  \/ ContainsBracketed(musicContent, "{", "}")
  \/ ContainsBracketed(musicContent, "[", "]")
  \/ ContainsRun(musicContent, {"!"}, Letter, <<{"!"}>>)
  \/ ContainsBracketed(musicContent, "<", ">")
  \* nabcSequences
  \/ Contains(musicContent, <<ClefDigit, PitchLetter, ClefDigit, PitchLetter>>)
  \/ ContainsRun(musicContent, {"n", "N"}, HexDigit, <<ClefDigit, PitchLetterAnyCase>>)
  \/ ContainsRun(musicContent, {"g", "G"}, Letter, <<ClefDigit, PitchLetterAnyCase>>)
  \/ Contains(musicContent, <<{"@"}, ClefDigit, PitchLetter>>)

\* charCodeAt(0) of a lower-case letter, up to a constant
CharCode(c) == CHOOSE k \in 1..26 : LowerLetters[k] = c

\* first position at or after from where /([a-m])([wW])/ matches, 0 for none
RECURSIVE NextQuilisma(_, _)
NextQuilisma(content, from) ==
  IF from + 1 > Len(content) THEN 0
  ELSE IF content[from] \in PitchLetter /\ content[from + 1] \in {"w", "W"} THEN from
  ELSE NextQuilisma(content, from + 1)

GlyphBreakDiagnostic(note, modifier, range) ==
  [severity |-> SeverityInformation,
   range |-> range,
   message |-> << "Consider adding glyph break (!) before quilisma note for better rendering. Suggestion: add ! before '",
                  note, modifier, "'" >>,
   source |-> "gregorio-lsp",
   code |-> "quilisma-glyph-break"]

AscendingMotionDiagnostic(note, modifier, noteAfter, range) ==
  [severity |-> SeverityWarning,
   range |-> range,
   message |-> << "Quilisma should be followed by a higher note. Currently '",
                  note, modifier, "' is followed by '", noteAfter,
                  "' (same or lower pitch)" >>,
   source |-> "gregorio-lsp",
   code |-> "quilisma-ascending-motion"]

NoFollowingNoteDiagnostic(note, modifier, range) ==
  [severity |-> SeverityWarning,
   range |-> range,
   message |-> << "Quilisma '", note, modifier, "' should be followed by a higher note" >>,
   source |-> "gregorio-lsp",
   code |-> "quilisma-no-following-note"]

\* the while loop of validateQuilismaUsage with quilismaPattern.lastIndex = from
RECURSIVE QuilismaFrom(_, _, _)
QuilismaFrom(content, from, range) ==
  LET p == NextQuilisma(content, from)
  IN IF p = 0 THEN <<>>
     ELSE
       LET noteBeforeQuilisma == content[p]
           quilismaModifier == content[p + 1]
           hasGlyphBreak == p > 1 /\ content[p - 1] = "!"
           hasNoteAfter == p + 2 <= Len(content) /\ content[p + 2] \in PitchLetter
       IN (IF ~hasGlyphBreak
           THEN << GlyphBreakDiagnostic(noteBeforeQuilisma, quilismaModifier, range) >>
           ELSE <<>>)
          \o (IF hasNoteAfter
              THEN IF CharCode(content[p + 2]) <= CharCode(noteBeforeQuilisma)
                   THEN << AscendingMotionDiagnostic(noteBeforeQuilisma, quilismaModifier,
                                                     content[p + 2], range) >>
                   ELSE <<>>
              ELSE << NoFollowingNoteDiagnostic(noteBeforeQuilisma, quilismaModifier, range) >>)
          \o QuilismaFrom(content, p + 2, range)

validateQuilismaUsage(content, range) == QuilismaFrom(content, 1, range)

\* /[n-uw-z]/gi
InvalidPitchClass ==
  {"n","o","p","q","r","s","t","u","w","x","y","z",
   "N","O","P","Q","R","S","T","U","W","X","Y","Z"}

validModifiers == {"w","W","v","V","s","o","O","q","r","R"}

validateGABCNotation(content, range) ==
  LET IsInvalid(c) == c \in InvalidPitchClass /\ c \notin validModifiers
      actuallyInvalid == SelectSeq(content, IsInvalid)
  IN validateQuilismaUsage(content, range)
       \o (IF Len(actuallyInvalid) > 0
           THEN << [severity |-> SeverityError,
                    range |-> range,
                    message |-> <<"Invalid pitch letters in GABC notation: ", actuallyInvalid>>,
                    source |-> "gregorio-lsp",
                    code |-> "none"] >>
           ELSE <<>>)

\* /[^1-4a-mng0-9e\s\-|]/g
NabcAllowedChar == Digit \cup PitchLetter \cup {"n", "g", "e", "-", "|"} \cup WhiteSpace

validateNABCNotation(content, range) ==
  LET hasValidNABC ==
        \/ Contains(content, <<ClefDigit, PitchLetter>>)
        \/ Contains(content, <<{"n"}, Digit \cup {"a","b","c","d","e","f"}>>)
        \/ Contains(content, <<{"g"}, Lower>>)
        \/ Contains(content, <<{"e"}, Lower>>)
      IsNotAllowed(c) == c \notin NabcAllowedChar
      invalidChars == SelectSeq(content, IsNotAllowed)
  IN (IF ~hasValidNABC /\ ~IsBlank(content)
      THEN << [severity |-> SeverityWarning,
               range |-> range,
               message |-> <<"No valid NABC patterns found in notation">>,
               source |-> "gregorio-lsp",
               code |-> "none"] >>
      ELSE <<>>)
     \o (IF Len(invalidChars) > 0
         THEN << [severity |-> SeverityError,
                  range |-> range,
                  message |-> <<"Invalid characters in NABC notation: ", invalidChars>>,
                  source |-> "gregorio-lsp",
                  code |-> "none"] >>
         ELSE <<>>)

validateMusicElement(content, nabc, range) ==
  IF nabc THEN validateNABCNotation(content, range)
  ELSE validateGABCNotation(content, range)

----------------------------------------------------------------------------
(* Inputs of the music notation pass: the groups of test-quilisma-*.js *)

QuilismaVocab ==
  { <<>>,
    <<"h","i">>,
    <<"g","w">>,
    <<"g","w","f">>,
    <<"f","w","e">>,
    <<"g","w","h">>,
    <<"h","w","i">>,
    <<"f","W","i">>,
    <<"a","w","b">>,
    <<"f","w","f">>,
    <<"g","!","w","h">>,
    <<"f","!","w","i">>,
    <<"f","!","h","w","i">>,
    <<"h","w","f","w","i">>,
    <<"f","w","/","h">>,
    <<":",":">> }

ValDocs == UNION { [1..k -> QuilismaVocab] : k \in 1..MaxValSyllables }

----------------------------------------------------------------------------
(* parseMusicSection and validate as a step machine *)

ValInit ==
  /\ contents \in ValDocs
  /\ enableSemanticValidation \in BOOLEAN
  /\ valPc = "parse"
  /\ vsyl = 1
  /\ musicIsNabc = <<>>
  /\ diagnostics = <<>>

\* parseMusicSection: one syllable, isNabc: this.detectNABC(musicContent)
ValParseSyllable ==
  /\ valPc = "parse"
  /\ vsyl <= Len(contents)
  /\ musicIsNabc' = Append(musicIsNabc, detectNABC(contents[vsyl]))
  /\ vsyl' = vsyl + 1
  /\ UNCHANGED <<contents, enableSemanticValidation, valPc, diagnostics>>
  /\ UNCHANGED notValVars

\* parse has returned; validate reaches if (settings.enableSemanticValidation)
ValEnter ==
  /\ valPc = "parse"
  /\ vsyl > Len(contents)
  /\ valPc' = IF enableSemanticValidation THEN "music" ELSE "done"
  /\ vsyl' = 1
  /\ UNCHANGED <<contents, enableSemanticValidation, musicIsNabc, diagnostics>>
  /\ UNCHANGED notValVars

\* validateMusicNotation: one syllable
ValMusicElement ==
  /\ valPc = "music"
  /\ vsyl <= Len(contents)
  /\ diagnostics' = diagnostics
                      \o validateMusicElement(contents[vsyl], musicIsNabc[vsyl], vsyl)
  /\ vsyl' = vsyl + 1
  /\ UNCHANGED <<contents, enableSemanticValidation, valPc, musicIsNabc>>
  /\ UNCHANGED notValVars

\* validateMusicNotation returns
ValReturn ==
  /\ valPc = "music"
  /\ vsyl > Len(contents)
  /\ valPc' = "done"
  /\ UNCHANGED <<contents, enableSemanticValidation, vsyl, musicIsNabc, diagnostics>>
  /\ UNCHANGED notValVars

InitValidate == ValInit /\ AltIdle /\ TagIdle /\ SrvIdle /\ NabcIdle /\ LifeIdle

NextValidate ==
  \/ ValParseSyllable
  \/ ValEnter
  \/ ValMusicElement
  \/ ValReturn

SpecValidate == InitValidate /\ [][NextValidate]_vars

----------------------------------------------------------------------------
(* GABCParser.fallbackParse: header lines and parseMusicSection *)

\* String.trim
RECURSIVE TrimRight(_)
TrimRight(s) ==
  IF Len(s) > 0 /\ s[Len(s)] \in WhiteSpace THEN TrimRight(SubSeq(s, 1, Len(s) - 1)) ELSE s

Trim(s) == LET p == SkipSpace(s, 1) IN TrimRight(SubSeq(s, p, Len(s)))

PercentPercent == <<"%", "%">>

\* index of the first line whose trimmed text is '%%' at or after i, 0 for none
RECURSIVE SeparatorLine(_, _)
SeparatorLine(ls, i) ==
  IF i > Len(ls) THEN 0
  ELSE IF Trim(ls[i]) = PercentPercent THEN i
  ELSE SeparatorLine(ls, i + 1)

\* the body of the header loop for line i (lines are numbered from 1 here)
HeaderOfLine(ls, i) ==
  LET line == Trim(ls[i])
      colonIndex == IndexOfChar(line, 1, ":")
  IN IF Len(line) > 0 /\ line[1] # "%" /\ colonIndex > 1
     THEN LET name == Trim(SubSeq(line, 1, colonIndex - 1))
              raw == Trim(SubSeq(line, colonIndex + 1, Len(line)))
              value == IF Len(raw) > 0 /\ raw[Len(raw)] = ";"
                       THEN Trim(SubSeq(raw, 1, Len(raw) - 1))
                       ELSE raw
          IN << [name |-> name, value |-> value, range |-> i] >>
     ELSE <<>>

\* the header loop over the lines i..last
RECURSIVE HeadersOfLines(_, _, _)
HeadersOfLines(ls, i, last) ==
  IF i > last THEN <<>>
  ELSE HeaderOfLine(ls, i) \o HeadersOfLines(ls, i + 1, last)

\* headers pushed before the loop breaks at '%%' or runs out of lines
ParsedHeaders(ls) ==
  LET sep == SeparatorLine(ls, 1)
  IN HeadersOfLines(ls, 1, IF sep = 0 THEN Len(ls) ELSE sep - 1)

\* musicStartLine: i + 1 at the '%%' line (0-based i), 0 when the loop never breaks
MusicStartLine(ls) == SeparatorLine(ls, 1)

\* lines.slice(musicStartLine).join('\n')
MusicText(ls) ==
  Join(SubSeq(ls, MusicStartLine(ls) + 1, Len(ls)), <<"\n">>)

\* first position at or after p that holds '(' or ')', 0 for none
RECURSIVE NextParen(_, _)
NextParen(s, p) ==
  IF p > Len(s) THEN 0
  ELSE IF s[p] \in {"(", ")"} THEN p
  ELSE NextParen(s, p + 1)

\* the syllables matched by /([^()]*?)\(([^)]*)\)/g from lastIndex = from
RECURSIVE SyllablesFrom(_, _, _)
SyllablesFrom(s, from, n) ==
  LET q == NextParen(s, from)
  IN IF q = 0 THEN <<>>
     ELSE IF s[q] = ")" THEN SyllablesFrom(s, q + 1, n)
     ELSE LET r == IndexOfChar(s, q + 1, ")")
          IN IF r = 0 THEN <<>>
             ELSE LET textContent == Trim(SubSeq(s, from, q - 1))
                      musicContent == SubSeq(s, q + 1, r - 1)
                  IN << [text |-> textContent,
                         music |-> musicContent,
                         isNabc |-> detectNABC(musicContent),
                         range |-> n] >>
                     \o SyllablesFrom(s, r + 1, n + 1)

parseMusicSection(musicText) == SyllablesFrom(musicText, 1, 1)

----------------------------------------------------------------------------
(* The validation passes of GABCParser over a parsed document *)

ParseError(message, range, severity) ==
  [message |-> message, range |-> range, severity |-> severity]

\* h.name.toLowerCase() === name
NameIs(h, name) == ToLowerCase(h.name) = name

\* ast.headers.find(h => h.name.toLowerCase() === name), as a list of 0 or 1
RECURSIVE FindHeader(_, _)
FindHeader(hs, name) ==
  IF Len(hs) = 0 THEN <<>>
  ELSE IF NameIs(hs[1], name) THEN <<hs[1]>>
  ELSE FindHeader(Tail(hs), name)

NO_NAME_SPECIFIED ==
  <<"no name specified, put `name:...' at the beginning of the file, can be dangerous with some output formats">>
NAME_CANNOT_BE_EMPTY == <<"name can't be empty">>
TOO_MANY_ANNOTATIONS == <<"too many definitions of annotation found, only the first ", "2", " will be taken">>

\* GREGORIO_ERROR_MESSAGES.MULTIPLE_HEADER_DEFINITIONS.replace('%s', header.name)
MultipleHeaderDefinitions(name) ==
  <<"several ", name, " definitions found, only the last will be taken into consideration">>

\* headerCounts.get(headerName) || 0 when the loop reaches header k
HeaderCountBefore(hs, k) ==
  Cardinality({ j \in 1..(k - 1) : ToLowerCase(hs[j].name) = ToLowerCase(hs[k].name) })

\* variant of DuplicateWarnings that compares the names as written
RECURSIVE DuplicateWarnings_caseSensitive(_, _)
DuplicateWarnings_caseSensitive(hs, k) ==
  IF k > Len(hs) THEN <<>>
  ELSE (IF Cardinality({ j \in 1..(k - 1) : hs[j].name = hs[k].name }) > 0
        THEN << ParseError(MultipleHeaderDefinitions(hs[k].name), hs[k].range, SeverityWarning) >>
        ELSE <<>>)
       \o DuplicateWarnings_caseSensitive(hs, k + 1)

\* ast.headers.forEach: the duplicate check, for the headers k..
RECURSIVE DuplicateWarnings(_, _)
DuplicateWarnings(hs, k) ==
  IF k > Len(hs) THEN <<>>
  ELSE (IF HeaderCountBefore(hs, k) > 0
        THEN << ParseError(MultipleHeaderDefinitions(hs[k].name), hs[k].range, SeverityWarning) >>
        ELSE <<>>)
       \o DuplicateWarnings(hs, k + 1)

\* validateNABCHeader of src/nabc/validator.ts, converted to ParseError
NabcHeaderErrors(value) ==
  LET v == Trim(value)
      isNumber == Len(v) > 0 /\ \A k \in 1..Len(v) : v[k] \in Digit
      count == ParseDigits(v, 1, 0)
  IN IF ~isNumber
     THEN << ParseError(<<"nabc-lines must be a positive integer">>, 0, SeverityError) >>
     ELSE IF count < 1 \/ count > 10
     THEN << ParseError(<<"nabc-lines should be between 1 and 10, got ", count>>, 0,
                        IF count > 10 THEN SeverityError ELSE SeverityWarning) >>
     ELSE <<>>

parserValidateHeaders(hs) ==
  LET nameHeader == FindHeader(hs, <<"n","a","m","e">>)
      IsAnnotation(h) == NameIs(h, <<"a","n","n","o","t","a","t","i","o","n">>)
      annotationHeaders == SelectSeq(hs, IsAnnotation)
      nabcLinesHeader == FindHeader(hs, <<"n","a","b","c","-","l","i","n","e","s">>)
  IN (IF Len(nameHeader) = 0
      THEN << ParseError(NO_NAME_SPECIFIED, 0, SeverityWarning) >>
      ELSE IF IsBlank(nameHeader[1].value)
      THEN << ParseError(NAME_CANNOT_BE_EMPTY, nameHeader[1].range, SeverityWarning) >>
      ELSE <<>>)
     \o DuplicateWarnings(hs, 1)
     \o (IF Len(annotationHeaders) > 2
         THEN [k \in 1..(Len(annotationHeaders) - 2) |->
                 ParseError(TOO_MANY_ANNOTATIONS, annotationHeaders[k + 2].range, SeverityWarning)]
         ELSE <<>>)
     \o (IF Len(nabcLinesHeader) > 0 THEN NabcHeaderErrors(nabcLinesHeader[1].value) ELSE <<>>)

\* the headers as extractNABCConfiguration reads them
ConfigHeaders(hs) ==
  [k \in 1..Len(hs) |->
     [name |-> IF NameIs(hs[k], <<"n","a","b","c","-","l","i","n","e","s">>) THEN "nabc-lines" ELSE "other",
      value |-> hs[k].value]]

NabcConfigOf(hs) == extractNABCConfiguration(ConfigHeaders(hs))

\* if (alternationPeriod === 0): the snippets i.. of a group
RECURSIVE GabcOnlyErrors(_, _, _)
GabcOnlyErrors(snips, i, range) ==
  IF i > Len(snips) THEN <<>>
  ELSE (IF isNabcSnippet(snips[i])
        THEN << [message |-> <<NABC_WITHOUT_ALTERNATION>>, range |-> range,
                 severity |-> SeverityError, code |-> NABC_IN_GABC_ONLY_MODE] >>
        ELSE <<>>)
       \o GabcOnlyErrors(snips, i + 1, range)

\* else: for (let i = 0; i < snippets.length; i++), from index i
RECURSIVE SnippetErrors(_, _, _, _)
SnippetErrors(snips, i, period, range) ==
  IF i >= Len(snips) THEN <<>>
  ELSE LET should == shouldSnippetBeNabc(i, period)
           found == isNabcSnippet(snips[i + 1])
       IN (IF should # found
           THEN << [message |-> AlternationMessage(should, found, i), range |-> range,
                    severity |-> SeverityError, code |-> ALTERNATION_VIOLATION] >>
           ELSE <<>>)
          \o SnippetErrors(snips, i + 1, period, range)

\* validateAlternation(ast, nabcConfig) for the syllables k..
RECURSIVE AlternationErrors(_, _, _)
AlternationErrors(syllables, k, period) ==
  IF k > Len(syllables) THEN <<>>
  ELSE LET snips == parseNoteGroups(syllables[k].music)
       IN (IF period = 0
           THEN (IF Len(snips) > 1
                 THEN << [message |-> <<PIPE_WITHOUT_NABC_LINES>>, range |-> syllables[k].range,
                          severity |-> SeverityError, code |-> INVALID_PIPE_WITHOUT_NABC] >>
                 ELSE <<>>)
                \o GabcOnlyErrors(snips, 1, syllables[k].range)
           ELSE SnippetErrors(snips, 0, period, syllables[k].range))
          \o AlternationErrors(syllables, k + 1, period)

validateAlternation(syllables, nabcConfig) ==
  AlternationErrors(syllables, 1, PeriodOf(nabcConfig))

----------------------------------------------------------------------------
(* NABCValidator (src/src/nabc/validator.ts) and its catalogs *)

\* enum NABCFontFamily
ST_GALL == "gregall"
ST_GALL_MODERN == "gresgmodern"
LAON == "grelaon"

\* context.font of the only NABCValidator the parser constructs
NabcContextFont == ST_GALL

\* the codes of NABC_BASIC_GLYPHS
NABC_BASIC_GLYPHS ==
  {
    <<"v","i">>, <<"p","u">>, <<"t","a">>, <<"g","r">>, <<"c","l">>,
    <<"p","e">>, <<"p","o">>, <<"t","o">>, <<"c","i">>, <<"s","c">>,
    <<"p","f">>, <<"s","f">>, <<"t","r">>, <<"s","t">>, <<"d","s">>,
    <<"t","s">>, <<"t","g">>, <<"b","v">>, <<"t","v">>, <<"p","r">>,
    <<"p","i">>, <<"v","s">>, <<"o","r">>, <<"s","a">>, <<"p","q">>,
    <<"q","l">>, <<"q","i">>, <<"p","t">>, <<"n","i">>, <<"u","n">>,
    <<"o","c">> }

\* fontFamilies of a glyph of NABC_BASIC_GLYPHS
GlyphFontFamilies(code) ==
  IF code \in {<<"g","r">>, <<"s","t">>, <<"q","i">>} THEN {ST_GALL, ST_GALL_MODERN}
  ELSE IF code \in {<<"u","n">>, <<"o","c">>} THEN {LAON}
  ELSE {ST_GALL, ST_GALL_MODERN, LAON}

\* the keys of ALL_SIGNIFICANT_LETTERS (NABC_SIGNIFICANT_LETTERS and NABC_TIRONIAN_NOTES)
ALL_SIGNIFICANT_LETTERS ==
  {
    <<"l","s","a","l">>, <<"l","s","a","m">>, <<"l","s","b">>,
    <<"l","s","c">>, <<"l","s","c","m">>, <<"l","s","c","o">>,
    <<"l","s","c","w">>, <<"l","s","d">>, <<"l","s","e">>,
    <<"l","s","e","q">>, <<"l","s","e","w">>, <<"l","s","f">>,
    <<"l","s","f","r">>, <<"l","s","i">>, <<"l","s","i","m">>,
    <<"l","s","l">>, <<"l","s","l","t">>, <<"l","s","m">>,
    <<"l","s","m","o","l","l">>, <<"l","s","p">>, <<"l","s","p","a","r">>,
    <<"l","s","r">>, <<"l","s","s","c">>, <<"l","s","s","i","m","i","l">>,
    <<"l","s","s","i","m","u","l">>, <<"l","s","s","m">>,
    <<"l","s","s","t">>, <<"l","s","s","t","a">>, <<"l","s","t">>,
    <<"l","s","t","w">>, <<"l","s","t","b">>, <<"l","s","t","m">>,
    <<"l","s","v">>, <<"l","s","v","o","l">>, <<"l","s","x">>,
    <<"l","s","a">>, <<"l","s","e","q","u">>, <<"l","s","h">>,
    <<"l","s","h","n">>, <<"l","s","h","p">>, <<"l","s","n">>,
    <<"l","s","n","l">>, <<"l","s","n","t">>, <<"l","s","m","d">>,
    <<"l","s","s">>, <<"l","s","s","i","m","p">>,
    <<"l","s","s","i","m","p","l">>, <<"l","s","s","p">>,
    <<"l","s","t","h">>, <<"l","t","i">>, <<"l","t","d","o">>,
    <<"l","t","d","r">>, <<"l","t","d","x">>, <<"l","t","p","s">>,
    <<"l","t","q","m">>, <<"l","t","s","b">>, <<"l","t","s","e">>,
    <<"l","t","s","j">>, <<"l","t","s","l">>, <<"l","t","s","n">>,
    <<"l","t","s","p">>, <<"l","t","s","r">>, <<"l","t","s","t">>,
    <<"l","t","u","s">> }

\* the letters whose fontFamilies is [LAON]
LaonLetters ==
  {
    <<"l","s","a">>, <<"l","s","e","q","u">>, <<"l","s","h">>,
    <<"l","s","h","n">>, <<"l","s","h","p">>, <<"l","s","n">>,
    <<"l","s","n","l">>, <<"l","s","n","t">>, <<"l","s","m","d">>,
    <<"l","s","s">>, <<"l","s","s","i","m","p">>,
    <<"l","s","s","i","m","p","l">>, <<"l","s","s","p">>,
    <<"l","s","t","h">>, <<"l","t","i">>, <<"l","t","d","o">>,
    <<"l","t","d","r">>, <<"l","t","d","x">>, <<"l","t","p","s">>,
    <<"l","t","q","m">>, <<"l","t","s","b">>, <<"l","t","s","e">>,
    <<"l","t","s","j">>, <<"l","t","s","l">>, <<"l","t","s","n">>,
    <<"l","t","s","p">>, <<"l","t","s","r">>, <<"l","t","s","t">>,
    <<"l","t","u","s">> }

\* the letters whose positions include 5
LettersWithPosition5 ==
  {
    <<"l","s","a">>, <<"l","s","e","q","u">>, <<"l","s","h">>,
    <<"l","s","h","n">>, <<"l","s","h","p">>, <<"l","s","n">>,
    <<"l","s","n","l">>, <<"l","s","n","t">>, <<"l","s","m","d">>,
    <<"l","s","s">>, <<"l","s","s","i","m","p">>,
    <<"l","s","s","i","m","p","l">>, <<"l","s","s","p">>, <<"l","s","t","h">> }

\* the letters of category 'tironian'
TironianLetters ==
  {
    <<"l","t","i">>, <<"l","t","d","o">>, <<"l","t","d","r">>,
    <<"l","t","d","x">>, <<"l","t","p","s">>, <<"l","t","q","m">>,
    <<"l","t","s","b">>, <<"l","t","s","e">>, <<"l","t","s","j">>,
    <<"l","t","s","l">>, <<"l","t","s","n">>, <<"l","t","s","p">>,
    <<"l","t","s","r">>, <<"l","t","s","t">>, <<"l","t","u","s">> }

LetterFontFamilies(code) ==
  IF code \in LaonLetters THEN {LAON} ELSE {ST_GALL, ST_GALL_MODERN}

LetterPositions(code) ==
  IF code \in LettersWithPosition5 THEN 1..9 ELSE (1..9) \ {5}

\* createDiagnostic(start, end, message, severity, code)
createDiagnostic(start, end, message, severity, code) ==
  [range |-> <<start, end>>, message |-> message, severity |-> severity,
   code |-> code, source |-> "gregorio-lsp-nabc"]

\* String.split(c): every c ends a piece, empty pieces are kept
RECURSIVE SplitChar(_, _, _)
SplitChar(s, c, cur) ==
  IF Len(s) = 0 THEN <<cur>>
  ELSE IF Head(s) = c THEN <<cur>> \o SplitChar(Tail(s), c, <<>>)
  ELSE SplitChar(Tail(s), c, Append(cur, Head(s)))

\* text.split(/\s+/).filter(d => d.length > 0)
RECURSIVE SplitWhite(_, _)
SplitWhite(s, cur) ==
  IF Len(s) = 0 THEN (IF Len(cur) > 0 THEN <<cur>> ELSE <<>>)
  ELSE IF Head(s) \in WhiteSpace
  THEN (IF Len(cur) > 0 THEN <<cur>> ELSE <<>>) \o SplitWhite(Tail(s), <<>>)
  ELSE SplitWhite(Tail(s), Append(cur, Head(s)))

SpacingChars == {"/", Backtick}

\* parseSpacingAdjustments: the spacings read from position pos (1-based) on
RECURSIVE SpacingsFrom(_, _)
SpacingsFrom(snippet, pos) ==
  IF pos + 1 <= Len(snippet) /\ snippet[pos] \in SpacingChars /\ snippet[pos + 1] = snippet[pos]
  THEN <<SubSeq(snippet, pos, pos + 1)>> \o SpacingsFrom(snippet, pos + 2)
  ELSE IF pos <= Len(snippet) /\ snippet[pos] \in SpacingChars
  THEN <<SubSeq(snippet, pos, pos)>> \o SpacingsFrom(snippet, pos + 1)
  ELSE <<>>

RECURSIVE TotalLength(_)
TotalLength(parts) == IF Len(parts) = 0 THEN 0 ELSE Len(Head(parts)) + TotalLength(Tail(parts))

parseSpacingAdjustments(snippet) ==
  LET spacings == SpacingsFrom(snippet, 1)
  IN [spacings |-> spacings,
      remainder |-> SubSeq(snippet, TotalLength(spacings) + 1, Len(snippet))]

validSpacings == { <<"/","/">>, <<"/">>, <<Backtick, Backtick>>, <<Backtick>> }

\* validateSpacing for the spacings k.., the first at the given offset
RECURSIVE SpacingDiagnostics(_, _, _)
SpacingDiagnostics(spacings, k, offset) ==
  IF k > Len(spacings) THEN <<>>
  ELSE (IF spacings[k] \notin validSpacings
        THEN << createDiagnostic(offset, offset + Len(spacings[k]),
                                 <<"Invalid spacing adjustment: ", spacings[k]>>,
                                 SeverityError, "nabc-invalid-spacing") >>
        ELSE <<>>)
       \o SpacingDiagnostics(spacings, k + 1, offset + Len(spacings[k]))

ModifierChars == {"S", "G", "M", "-", "~", ">"}

\* the variant of a modifier that carries no number (undefined in the source;
\* the source only tests mod.variant for truth, and 0 is as false as undefined)
NoVariant == 0

\* parseModifiers: the modifiers of modifierText from position pos on
RECURSIVE ModifiersFrom(_, _)
ModifiersFrom(modifierText, pos) ==
  IF pos > Len(modifierText) THEN <<>>
  ELSE IF modifierText[pos] \in ModifierChars
  THEN LET last == RunEnd(modifierText, pos + 1, Digit)
       IN IF last >= pos + 1
          THEN << [modifier |-> modifierText[pos],
                   variant |-> ParseDigits(modifierText, pos + 1, 0)] >>
                 \o ModifiersFrom(modifierText, last + 1)
          ELSE << [modifier |-> modifierText[pos], variant |-> NoVariant] >>
                 \o ModifiersFrom(modifierText, pos + 1)
  ELSE ModifiersFrom(modifierText, pos + 1)

parseModifiers(modifierText) == ModifiersFrom(modifierText, 1)

\* [a-np]
PitchDescriptorLetters == {"a","b","c","d","e","f","g","h","i","j","k","l","m","n","p"}

SubPunctisModifiers == {"t", "u", "v", "w", "x", "y"}

\* last position of one (su|pp)[tuvwxy]?\d+ that starts at p, 0 when none does
SubPunctisGroupEnd(s, p) ==
  IF p + 1 <= Len(s) /\ SubSeq(s, p, p + 1) \in { <<"s","u">>, <<"p","p">> }
  THEN LET d == IF p + 2 <= Len(s) /\ s[p + 2] \in SubPunctisModifiers THEN p + 3 ELSE p + 2
           last == RunEnd(s, d, Digit)
       IN IF last >= d THEN last ELSE 0
  ELSE 0

\* ^((su|pp)[tuvwxy]?\d+)+ from p on: the start of the last repetition, the
\* one that capture group 1 holds (0 when nothing matches at p)
RECURSIVE LastSubPunctisGroup(_, _)
LastSubPunctisGroup(s, p) ==
  IF SubPunctisGroupEnd(s, p) = 0 THEN 0
  ELSE IF SubPunctisGroupEnd(s, SubPunctisGroupEnd(s, p) + 1) = 0 THEN p
  ELSE LastSubPunctisGroup(s, SubPunctisGroupEnd(s, p) + 1)

\* parseSubPunctis of a text that is one (su|pp)[tuvwxy]?\d+ group
parseSubPunctis(text) ==
  LET hasModifier == text[3] \in SubPunctisModifiers
  IN << [type |-> SubSeq(text, 1, 2),
         modifier |-> IF hasModifier THEN <<text[3]>> ELSE <<>>,
         count |-> ParseDigits(text, IF hasModifier THEN 4 ELSE 3, 0)] >>

\* last position of the match of ls[a-z]+\d or lt[a-z]+\d that starts at p,
\* 0 when none does ([a-z]+ is greedy and a digit has to follow the run)
LetterMatchEnd(s, p, second) ==
  IF p + 1 <= Len(s) /\ s[p] = "l" /\ s[p + 1] \in second
  THEN LET last == RunEnd(s, p + 2, Lower)
       IN IF last >= p + 2 /\ last + 1 <= Len(s) /\ s[last + 1] \in Digit
          THEN last + 1
          ELSE 0
  ELSE 0

\* the matches of a global pattern l[second][a-z]+\d from p on, as
\* [index (0-based), text]
RECURSIVE LetterMatchesFrom(_, _, _)
LetterMatchesFrom(s, p, second) ==
  IF p > Len(s) THEN <<>>
  ELSE IF LetterMatchEnd(s, p, second) > 0
  THEN << [index |-> p - 1, text |-> SubSeq(s, p, LetterMatchEnd(s, p, second))] >>
         \o LetterMatchesFrom(s, LetterMatchEnd(s, p, second) + 1, second)
  ELSE LetterMatchesFrom(s, p + 1, second)

\* parseGlyphDetails(text, components); a part that is absent is <<>>
parseGlyphDetails(text, components) ==
  LET remaining0 == SubSeq(text, 3, Len(text))
      \* /^([SGM\-~>]+\d*)/
      modChars == RunEnd(remaining0, 1, ModifierChars)
      modLast == IF modChars >= 1 THEN RunEnd(remaining0, modChars + 1, Digit) ELSE 0
      remaining1 == SubSeq(remaining0, modLast + 1, Len(remaining0))
      \* /^(h[a-np])/
      hasPitch == /\ Len(remaining1) >= 2
                  /\ remaining1[1] = "h"
                  /\ remaining1[2] \in PitchDescriptorLetters
      remaining2 == IF hasPitch THEN SubSeq(remaining1, 3, Len(remaining1)) ELSE remaining1
      \* /^((su|pp)[tuvwxy]?\d+)+/: match[1] is the last repetition
      groupStart == LastSubPunctisGroup(remaining2, 1)
      group == IF groupStart = 0 THEN <<>>
               ELSE SubSeq(remaining2, groupStart, SubPunctisGroupEnd(remaining2, groupStart))
      remaining3 == SubSeq(remaining2, Len(group) + 1, Len(remaining2))
      \* /(ls[a-z]+\d|lt[a-z]+\d)/g
      letterMatches == LetterMatchesFrom(remaining3, 1, {"s", "t"})
  IN [components |-> components,
      modifiers |-> IF modLast = 0 THEN <<>> ELSE parseModifiers(SubSeq(remaining0, 1, modLast)),
      pitch |-> IF hasPitch THEN SubSeq(remaining1, 1, 2) ELSE <<>>,
      subpunctis |-> IF groupStart = 0 THEN <<>> ELSE parseSubPunctis(group),
      significantLetters |->
        [k \in 1..Len(letterMatches) |->
           [code |-> letterMatches[k].text,
            position |-> DigitValue(letterMatches[k].text[Len(letterMatches[k].text)])]]]

\* part.match(/^([a-z]{2})/)
HasGlyphCode(part) == Len(part) >= 2 /\ part[1] \in Lower /\ part[2] \in Lower

\* the for loop of parseComplexGlyph from part i on; <<>> stands for null
RECURSIVE ComplexGlyphFrom(_, _, _)
ComplexGlyphFrom(glyphParts, i, components) ==
  IF i > Len(glyphParts) THEN <<>>
  ELSE IF HasGlyphCode(glyphParts[i])
  THEN IF i = 1
       THEN << parseGlyphDetails(glyphParts[i],
                                 Append(components, SubSeq(glyphParts[i], 1, 2))) >>
       ELSE ComplexGlyphFrom(glyphParts, i + 1,
                             Append(components, SubSeq(glyphParts[i], 1, 2)))
  ELSE ComplexGlyphFrom(glyphParts, i + 1, components)

\* parseComplexGlyph(descriptor): a list of 0 (null) or 1 glyph
parseComplexGlyph(descriptor) == ComplexGlyphFrom(SplitChar(descriptor, "!", <<>>), 1, <<>>)

RECURSIVE NeumesOf(_, _)
NeumesOf(descriptors, k) ==
  IF k > Len(descriptors) THEN <<>>
  ELSE LET parsed == parseComplexGlyph(descriptors[k])
       IN (IF Len(parsed) = 0 THEN <<>>
           ELSE << [components |-> parsed[1].components,
                    modifiers |-> parsed[1].modifiers,
                    pitch |-> parsed[1].pitch,
                    subpunctis |-> parsed[1].subpunctis,
                    significantLetters |-> parsed[1].significantLetters,
                    originalText |-> descriptors[k]] >>)
          \o NeumesOf(descriptors, k + 1)

parseComplexNeumes(text) == NeumesOf(SplitWhite(text, <<>>), 1)

\* validateComplexNeume: the loop over neume.components from k on
RECURSIVE ComponentDiagnostics(_, _, _)
ComponentDiagnostics(components, k, offset) ==
  IF k > Len(components) THEN <<>>
  ELSE (IF components[k] \notin NABC_BASIC_GLYPHS
        THEN << createDiagnostic(offset, offset + Len(components[k]),
                                 <<"Unknown glyph code: ", components[k]>>,
                                 SeverityError, "nabc-unknown-glyph") >>
        ELSE IF NabcContextFont \notin GlyphFontFamilies(components[k])
        THEN << createDiagnostic(offset, offset + Len(components[k]),
                                 <<"Glyph '", components[k], "' not available in ",
                                   NabcContextFont, " font">>,
                                 SeverityError, "nabc-font-incompatibility") >>
        ELSE <<>>)
       \o ComponentDiagnostics(components, k + 1, offset)

\* the number n written in a message
RECURSIVE NumberText(_)
NumberText(n) == IF n < 10 THEN <<DigitChar(n)>> ELSE NumberText(n \div 10) \o <<DigitChar(n % 10)>>

\* validateModifiers for the modifiers k..
RECURSIVE ModifierDiagnostics(_, _, _, _)
ModifierDiagnostics(modifiers, k, baseGlyph, offset) ==
  IF k > Len(modifiers) THEN <<>>
  ELSE (IF modifiers[k].modifier = "~" /\ baseGlyph \notin { <<"c","l">>, <<"p","o">>, <<"t","r">> }
        THEN << createDiagnostic(offset, offset + 2,
                                 <<"Diminutive liquescence (~) rarely used with ", baseGlyph>>,
                                 SeverityWarning, "nabc-unusual-modifier") >>
        ELSE <<>>)
       \o (IF modifiers[k].variant # NoVariant /\ modifiers[k].variant > 5
           THEN << createDiagnostic(offset, offset + 2,
                                    <<"Unusual modifier variant number: ",
                                      NumberText(modifiers[k].variant)>>,
                                    SeverityWarning, "nabc-high-variant") >>
           ELSE <<>>)
       \o ModifierDiagnostics(modifiers, k + 1, baseGlyph, offset)

\* validatePitch
PitchDiagnostics(pitch, offset) ==
  IF ~(Len(pitch) = 2 /\ pitch[1] = "h" /\ pitch[2] \in PitchDescriptorLetters)
  THEN << createDiagnostic(offset, offset + Len(pitch),
                           <<"Invalid pitch descriptor: ", pitch>>,
                           SeverityError, "nabc-invalid-pitch") >>
  ELSE <<>>

\* validateSubPunctis for the entries k..
RECURSIVE SubPunctisDiagnostics(_, _, _)
SubPunctisDiagnostics(subpunctis, k, offset) ==
  IF k > Len(subpunctis) THEN <<>>
  ELSE (IF subpunctis[k].count > 10
        THEN << createDiagnostic(offset, offset + 10,
                                 <<"Unusually high count for ", subpunctis[k].type, ": ",
                                   NumberText(subpunctis[k].count)>>,
                                 SeverityWarning, "nabc-high-subpunctis-count") >>
        ELSE <<>>)
       \o (IF /\ Len(subpunctis[k].modifier) > 0
              /\ NabcContextFont = LAON
              /\ subpunctis[k].modifier[1] \notin {"n", "q", "z", "x"}
           THEN << createDiagnostic(offset, offset + 10,
                                    <<"Modifier '", subpunctis[k].modifier,
                                      "' not available in Laon font">>,
                                    SeverityError, "nabc-laon-modifier-error") >>
           ELSE <<>>)
       \o SubPunctisDiagnostics(subpunctis, k + 1, offset)

\* validateSignificantLetters for the letters k..
RECURSIVE SignificantLetterDiagnostics(_, _, _)
SignificantLetterDiagnostics(letters, k, offset) ==
  IF k > Len(letters) THEN <<>>
  ELSE LET code == letters[k].code
           end == offset + Len(code)
       IN (IF code \notin ALL_SIGNIFICANT_LETTERS
           THEN << createDiagnostic(offset, end, <<"Unknown significant letter: ", code>>,
                                    SeverityError, "nabc-unknown-letter") >>
           ELSE (IF NabcContextFont \notin LetterFontFamilies(code)
                 THEN << createDiagnostic(offset, end,
                                          <<"Letter '", code, "' not available in ",
                                            NabcContextFont, " font">>,
                                          SeverityError, "nabc-letter-font-incompatibility") >>
                 ELSE <<>>)
                \o (IF letters[k].position \notin LetterPositions(code)
                    THEN << createDiagnostic(offset, end,
                                             <<"Position ", DigitChar(letters[k].position),
                                               " not valid for letter '", code, "'">>,
                                             SeverityError, "nabc-invalid-letter-position") >>
                    ELSE <<>>)
                \o (IF code \in TironianLetters /\ NabcContextFont # LAON
                    THEN << createDiagnostic(offset, end,
                                             <<"Tironian note '", code,
                                               "' only available in Laon font">>,
                                             SeverityError, "nabc-tironian-font-error") >>
                    ELSE <<>>))
          \o SignificantLetterDiagnostics(letters, k + 1, offset)

\* validateSemanticConstraints
validateSemanticConstraints(neume, offset) ==
  (IF Len(neume.components) > 1 /\ Len(neume.pitch) = 0
   THEN << createDiagnostic(offset, offset + Len(neume.originalText),
                            <<"Compound glyph should specify pitch descriptor for all components">>,
                            SeverityWarning, "nabc-missing-compound-pitch") >>
   ELSE <<>>)
  \o (IF /\ \E k \in 1..Len(neume.modifiers) : neume.modifiers[k].modifier \in {">", "~"}
         /\ \E k \in 1..Len(neume.modifiers) : neume.modifiers[k].modifier = "-"
      THEN << createDiagnostic(offset, offset + Len(neume.originalText),
                               <<"Liquescence and episema modifiers rarely used together">>,
                               SeverityInformation, "nabc-unusual-modifier-combination") >>
      ELSE <<>>)

validateComplexNeume(neume, offset) ==
  ComponentDiagnostics(neume.components, 1, offset)
    \o ModifierDiagnostics(neume.modifiers, 1, neume.components[1], offset)
    \o (IF Len(neume.pitch) > 0 THEN PitchDiagnostics(neume.pitch, offset) ELSE <<>>)
    \o SubPunctisDiagnostics(neume.subpunctis, 1, offset)
    \o SignificantLetterDiagnostics(neume.significantLetters, 1, offset)
    \o validateSemanticConstraints(neume, offset)

\* the loop of validateNABCSnippet over the neumes k.., the first at currentOffset
RECURSIVE NeumeDiagnostics(_, _, _)
NeumeDiagnostics(neumes, k, currentOffset) ==
  IF k > Len(neumes) THEN <<>>
  ELSE validateComplexNeume(neumes[k], currentOffset)
         \o NeumeDiagnostics(neumes, k + 1, currentOffset + Len(neumes[k].originalText))

\* warnings 1 and 2 of validateWarningCases for the matches k.. of /lt[a-z]+\d/g
RECURSIVE TironianWarnings(_, _, _)
TironianWarnings(matches, k, startOffset) ==
  IF k > Len(matches) THEN <<>>
  ELSE LET start == startOffset + matches[k].index
           end == start + Len(matches[k].text)
       IN (IF NabcContextFont # LAON
           THEN << createDiagnostic(start, end,
                                    <<"Tironian notes are only supported in Laon fonts (grelaon)">>,
                                    SeverityWarning, "nabc-font-specific-tironian") >>
           ELSE <<>>)
          \o (IF matches[k].text[Len(matches[k].text)] = "5"
              THEN << createDiagnostic(start, end,
                                       <<"Position 5 is not valid for Tironian notes">>,
                                       SeverityWarning, "nabc-invalid-tironian-position") >>
              ELSE <<>>)
          \o TironianWarnings(matches, k + 1, startOffset)

\* warning 3: the matches of /[\/`]{5,}/g from p on
RECURSIVE ExcessiveSpacingWarnings(_, _, _)
ExcessiveSpacingWarnings(content, p, startOffset) ==
  IF p > Len(content) THEN <<>>
  ELSE LET last == RunEnd(content, p, SpacingChars)
       IN IF last - p + 1 >= 5
          THEN << createDiagnostic(startOffset + p - 1, startOffset + last,
                                   <<"Excessive spacing adjustments may cause layout issues">>,
                                   SeverityWarning, "nabc-excessive-spacing") >>
                 \o ExcessiveSpacingWarnings(content, last + 1, startOffset)
          ELSE ExcessiveSpacingWarnings(content, p + 1, startOffset)

\* warning 4: the matches of /[a-z]{2}[SGM\->~]{4,}/g from p on
RECURSIVE UnusualModifierWarnings(_, _, _)
UnusualModifierWarnings(content, p, startOffset) ==
  IF p + 1 > Len(content) THEN <<>>
  ELSE LET last == RunEnd(content, p + 2, ModifierChars)
       IN IF content[p] \in Lower /\ content[p + 1] \in Lower /\ last - (p + 2) + 1 >= 4
          THEN << createDiagnostic(startOffset + p - 1, startOffset + last,
                                   <<"Unusual number of modifiers - verify intended notation">>,
                                   SeverityWarning, "nabc-unusual-modifiers") >>
                 \o UnusualModifierWarnings(content, last + 1, startOffset)
          ELSE UnusualModifierWarnings(content, p + 1, startOffset)

\* the keys of positionCounts in insertion order: the positions of the
\* matches k.. that are not in seen
RECURSIVE PositionKeys(_, _, _)
PositionKeys(matches, k, seen) ==
  IF k > Len(matches) THEN <<>>
  ELSE LET pos == DigitValue(matches[k].text[Len(matches[k].text)])
       IN IF pos \in seen THEN PositionKeys(matches, k + 1, seen)
          ELSE <<pos>> \o PositionKeys(matches, k + 1, seen \cup {pos})

\* warning 5: for the keys k.. of positionCounts, one warning per item of a
\* position that more than one match of /ls[a-z]+(\d)/g has
RECURSIVE DuplicatePositionWarnings(_, _, _, _)
DuplicatePositionWarnings(matches, keys, k, startOffset) ==
  IF k > Len(keys) THEN <<>>
  ELSE LET AtPos(m) == DigitValue(m.text[Len(m.text)]) = keys[k]
           items == SelectSeq(matches, AtPos)
       IN (IF Len(items) > 1
           THEN [n \in 1..Len(items) |->
                   createDiagnostic(startOffset + items[n].index,
                                    startOffset + items[n].index + Len(items[n].text),
                                    <<"Multiple significant letters at position ",
                                      DigitChar(keys[k])>>,
                                    SeverityWarning, "nabc-duplicate-positions")]
           ELSE <<>>)
          \o DuplicatePositionWarnings(matches, keys, k + 1, startOffset)

validateWarningCases(content, startOffset) ==
  TironianWarnings(LetterMatchesFrom(content, 1, {"t"}), 1, startOffset)
    \o ExcessiveSpacingWarnings(content, 1, startOffset)
    \o UnusualModifierWarnings(content, 1, startOffset)
    \o DuplicatePositionWarnings(LetterMatchesFrom(content, 1, {"s"}),
                                 PositionKeys(LetterMatchesFrom(content, 1, {"s"}), 1, {}),
                                 1, startOffset)

validateNABCSnippet(snippet, startOffset) ==
  LET parsed == parseSpacingAdjustments(snippet)
  IN SpacingDiagnostics(parsed.spacings, 1, startOffset)
       \o NeumeDiagnostics(parseComplexNeumes(parsed.remainder), 1,
                           startOffset + TotalLength(parsed.spacings))
       \o validateWarningCases(snippet, startOffset)

\* the matches of /\|([^|]+)\|/g from p on, without their '|' delimiters
RECURSIVE NabcMatchesFrom(_, _)
NabcMatchesFrom(musicContent, p) ==
  IF p > Len(musicContent) THEN <<>>
  ELSE IF /\ musicContent[p] = "|"
          /\ p + 1 <= Len(musicContent)
          /\ musicContent[p + 1] # "|"
          /\ IndexOfChar(musicContent, p + 2, "|") > 0
  THEN LET q == IndexOfChar(musicContent, p + 2, "|")
       IN <<SubSeq(musicContent, p + 1, q - 1)>> \o NabcMatchesFrom(musicContent, q + 1)
  ELSE NabcMatchesFrom(musicContent, p + 1)

\* nabcErrors.forEach: the diagnostics of one snippet as ParseErrors
NabcParseErrors(ds, range) ==
  [k \in 1..Len(ds) |->
     [message |-> ds[k].message, range |-> range, severity |-> ds[k].severity]]

RECURSIVE NabcContentErrors(_, _, _)
NabcContentErrors(matches, k, range) ==
  IF k > Len(matches) THEN <<>>
  ELSE NabcParseErrors(validateNABCSnippet(matches[k], 0), range)
         \o NabcContentErrors(matches, k + 1, range)

----------------------------------------------------------------------------
(* validateNABCContent as a step machine *)

\* snippets of NABC_COMPREHENSIVE_ANALYSIS.md and of the NABC tests: simple
\* and compound neumes, a pitch descriptor, modifiers, subpunctis, St. Gall,
\* Laon and Tironian significant letters, codes that no catalog holds
NabcSnippetVocab ==
  { <<"v","i">>,
    <<"v","i","!","p","u">>,
    <<"v","i","!","z","z">>,
    <<"v","i","h","g","!","p","u">>,
    <<"v","i","!","u","n">>,
    <<"v","i","l","s","c","2">>,
    <<"v","i","l","s","c","5">>,
    <<"v","i","l","s","a","2">>,
    <<"v","i","l","s","z","z","2">>,
    <<"c","l","-","1","s","u","2","l","t","i","5">> }

RECURSIVE PipeJoined(_)
PipeJoined(snips) == IF Len(snips) = 0 THEN <<>> ELSE <<"|">> \o Head(snips) \o PipeJoined(Tail(snips))

\* a group: the GABC snippet f, up to MaxNabcSnippets NABC snippets, and
\* possibly a closing '|'
NabcGroups ==
  { <<"f">> \o PipeJoined(snips) \o closing :
      snips \in UNION { [1..k -> NabcSnippetVocab] : k \in 0..MaxNabcSnippets },
      closing \in { <<>>, <<"|">> } }

NabcConfigurations ==
  { extractNABCConfiguration(hs) :
      hs \in { <<>>, << [name |-> "nabc-lines", value |-> <<"0">>] >>,
               << [name |-> "nabc-lines", value |-> <<"1">>] >> } }

NabcInit ==
  /\ notationConfig \in NabcConfigurations
  /\ nabcContent \in NabcGroups
  /\ nabcPc = "notation"
  /\ nabcMatches = <<>>
  /\ nabcIdx = 1
  /\ nabcNeumes = <<>>
  /\ nabcDiagnostics = <<>>
  /\ nabcErrors = <<>>

\* validateNotation: if (notationConfig.enabled) is false, no call
NabcDisabled ==
  /\ nabcPc = "notation"
  /\ ~notationConfig.enabled
  /\ nabcPc' = "done"
  /\ UNCHANGED <<notationConfig, nabcContent, nabcMatches, nabcIdx, nabcNeumes,
                 nabcDiagnostics, nabcErrors>>
  /\ UNCHANGED notNabcVars

\* validateNABCContent: nabcMatches = musicContent.match(/\|([^|]+)\|/g)
NabcMatch ==
  /\ nabcPc = "notation"
  /\ notationConfig.enabled
  /\ nabcMatches' = NabcMatchesFrom(nabcContent, 1)
  /\ nabcIdx' = 1
  /\ nabcPc' = "forEach"
  /\ UNCHANGED <<notationConfig, nabcContent, nabcNeumes, nabcDiagnostics, nabcErrors>>
  /\ UNCHANGED notNabcVars

\* validateNABCSnippet: this.diagnostics = [], the spacings, parseComplexNeumes
NabcParseSnippet ==
  /\ nabcPc = "forEach"
  /\ nabcIdx <= Len(nabcMatches)
  /\ LET parsed == parseSpacingAdjustments(nabcMatches[nabcIdx])
     IN /\ nabcDiagnostics' = SpacingDiagnostics(parsed.spacings, 1, 0)
        /\ nabcNeumes' = parseComplexNeumes(parsed.remainder)
  /\ nabcPc' = "neumes"
  /\ UNCHANGED <<notationConfig, nabcContent, nabcMatches, nabcIdx, nabcErrors>>
  /\ UNCHANGED notNabcVars

\* validateNABCSnippet: for (const neume of neumes) validateComplexNeume
NabcValidateNeumes ==
  /\ nabcPc = "neumes"
  /\ nabcDiagnostics' = nabcDiagnostics \o
        NeumeDiagnostics(nabcNeumes, 1,
          TotalLength(parseSpacingAdjustments(nabcMatches[nabcIdx]).spacings))
  /\ nabcPc' = "warnings"
  /\ UNCHANGED <<notationConfig, nabcContent, nabcMatches, nabcIdx, nabcNeumes, nabcErrors>>
  /\ UNCHANGED notNabcVars

\* validateNABCSnippet: validateWarningCases; return this.diagnostics
NabcWarningCases ==
  /\ nabcPc = "warnings"
  /\ nabcDiagnostics' = nabcDiagnostics \o validateWarningCases(nabcMatches[nabcIdx], 0)
  /\ nabcPc' = "convert"
  /\ UNCHANGED <<notationConfig, nabcContent, nabcMatches, nabcIdx, nabcNeumes, nabcErrors>>
  /\ UNCHANGED notNabcVars

\* validateNABCContent: nabcErrors.forEach(diagnostic => errors.push(...))
NabcConvert ==
  /\ nabcPc = "convert"
  /\ nabcErrors' = nabcErrors \o NabcParseErrors(nabcDiagnostics, 0)
  /\ nabcIdx' = nabcIdx + 1
  /\ nabcPc' = "forEach"
  /\ UNCHANGED <<notationConfig, nabcContent, nabcMatches, nabcNeumes, nabcDiagnostics>>
  /\ UNCHANGED notNabcVars

\* validateNABCContent: the forEach has ended, return errors
NabcReturn ==
  /\ nabcPc = "forEach"
  /\ nabcIdx > Len(nabcMatches)
  /\ nabcPc' = "done"
  /\ UNCHANGED <<notationConfig, nabcContent, nabcMatches, nabcIdx, nabcNeumes,
                 nabcDiagnostics, nabcErrors>>
  /\ UNCHANGED notNabcVars

InitNabc == NabcInit /\ AltIdle /\ TagIdle /\ ValIdle /\ SrvIdle /\ LifeIdle

NextNabc ==
  \/ NabcDisabled
  \/ NabcMatch
  \/ NabcParseSnippet
  \/ NabcValidateNeumes
  \/ NabcWarningCases
  \/ NabcConvert
  \/ NabcReturn

SpecNabc == InitNabc /\ [][NextNabc]_vars

\* musicContent.match(/\|([^|]+)\|/g) !== null
HasNabcMatch(content) ==
  \E p \in 1..Len(content) :
    /\ content[p] = "|"
    /\ p + 1 <= Len(content)
    /\ content[p + 1] # "|"
    /\ IndexOfChar(content, p + 2, "|") > 0

\* validateNABCContent(syllable, config): every match of the pattern, without
\* its delimiters, goes to NABCValidator.validateNABCSnippet
validateNABCContent(content, range) ==
  NabcContentErrors(NabcMatchesFrom(content, 1), 1, range)

\* /[^a-zA-Z0-9()\[\]{}|\/\\\-_.'`~<>:;,=+@#$% \t\n\r]/
RecognizedChar ==
  Letter \cup Digit \cup WhiteSpace \cup
  {"(", ")", "[", "]", "{", "}", "|", "/", "\\", "-", "_", ".", "'", Backtick,
   "~", "<", ">", ":", ";", ",", "=", "+", "@", "#", "$", "%"}

UnrecognizedCharacter(c) == <<"unrecognized character", ": \"", c, "\"">>

InvalidPitchMessage(c) == <<"invalid pitch for ", "4", " lines: ", c>>

InvalidClefLineMessage(d) == <<"invalid clef line for ", "4", " lines: ", d>>

QToZ == {"q","r","s","t","u","v","w","x","y","z"}

ContainsNoCase(s, w) == Contains(ToLowerCase(s), Lit(w))

\* skipPatterns.some(pattern => pattern.test(context))
ShouldSkip(context) ==
  \/ ContainsNoCase(context, <<"q","u","i","l","i","s","m","a">>)
  \/ ContainsNoCase(context, <<"q","u">>)
  \/ ContainsNoCase(context, <<"v","i","r","g","a">>)
  \/ ContainsNoCase(context, <<"s","t","r","o","p","h","a">>)
  \/ ContainsNoCase(context, <<"o","r","i","s","c","u","s">>)
  \/ ContainsNoCase(context, <<"v","e","r","t">>)
  \/ ContainsNoCase(context, <<"v","e","r","t","i","c","a","l">>)
  \/ \E k \in 1..(Len(context) - 1) :
       context[k] \in WordChar /\ ToLowerChar(context[k + 1]) \in QToZ

\* the matches of /(?:^|[^a-zA-Z])([q-z])(?![a-zA-Z])/g: the letter is at p
IsolatedLetterAt(content, p) ==
  /\ content[p] \in QToZ
  /\ (p = 1 \/ content[p - 1] \notin Letter)
  /\ (p = Len(content) \/ content[p + 1] \notin Letter)

\* musicContent.substring(Math.max(0, index - 5), index + 6), index of the match
PitchContext(content, p) ==
  LET start == IF p = 1 THEN 1 ELSE p - 1
      from == IF start - 5 < 1 THEN 1 ELSE start - 5
      to == IF start + 5 > Len(content) THEN Len(content) ELSE start + 5
  IN SubSeq(content, from, to)

RECURSIVE NotationErrorsFrom(_, _, _)
NotationErrorsFrom(content, p, range) ==
  IF p > Len(content) THEN <<>>
  ELSE (IF content[p] \notin RecognizedChar
        THEN << ParseError(UnrecognizedCharacter(content[p]), range, SeverityError) >>
        ELSE <<>>)
       \o NotationErrorsFrom(content, p + 1, range)

RECURSIVE PitchErrorsFrom(_, _, _)
PitchErrorsFrom(content, p, range) ==
  IF p > Len(content) THEN <<>>
  ELSE (IF IsolatedLetterAt(content, p) /\ ~ShouldSkip(PitchContext(content, p))
        THEN << ParseError(InvalidPitchMessage(content[p]), range, SeverityError) >>
        ELSE <<>>)
       \o PitchErrorsFrom(content, p + 1, range)

\* the matches of /[cf]([0-9]+)/g
RECURSIVE ClefErrorsFrom(_, _, _)
ClefErrorsFrom(content, p, range) ==
  IF p + 1 > Len(content) THEN <<>>
  ELSE IF content[p] \in {"c", "f"} /\ content[p + 1] \in Digit
  THEN LET last == RunEnd(content, p + 1, Digit)
           clefLine == ParseDigits(content, p + 1, 0)
       IN (IF clefLine < 1 \/ clefLine > 5
           THEN << ParseError(InvalidClefLineMessage(clefLine), range, SeverityError) >>
           ELSE <<>>)
          \o ClefErrorsFrom(content, last + 1, range)
  ELSE ClefErrorsFrom(content, p + 1, range)

\* validateNotation for the syllables k..
RECURSIVE NotationErrors(_, _, _)
NotationErrors(syllables, k, enabled) ==
  IF k > Len(syllables) THEN <<>>
  ELSE LET content == syllables[k].music
           range == syllables[k].range
       IN (IF enabled THEN validateNABCContent(content, range) ELSE <<>>)
          \o NotationErrorsFrom(content, 1, range)
          \o PitchErrorsFrom(content, 1, range)
          \o ClefErrorsFrom(content, 1, range)
          \o NotationErrors(syllables, k + 1, enabled)

validateNotation(hs, syllables) == NotationErrors(syllables, 1, NabcConfigOf(hs).enabled)

LINE_BREAK_NOT_SUPPORTED_FIRST_SYLLABLE == <<"line break is not supported on the first syllable">>
CLEF_CHANGE_NOT_SUPPORTED_FIRST_SYLLABLE == <<"clef change is not supported on the first syllable">>
ELISION_AT_SCORE_INITIAL == <<"score initial may not be in an elision">>
LARGE_AMBITUS_WARNING ==
  <<"Encountered the need to switch DET_END_OF_CURRENT to DET_END_OF_BOTH because of overly large ambitus">>
SYLLABLE_ALREADY_HAS_CENTER == <<"syllable already has center; ignoring additional center">>
SYLLABLE_ALREADY_HAS_PROTRUSION == <<"syllable already has protrusion; pr tag ignored">>

\* ast.music.syllables.find(s => s.text && s.text.content.trim() !== '') || ast.music.syllables[0]
RECURSIVE FirstWithText(_, _)
FirstWithText(syllables, k) ==
  IF k > Len(syllables) THEN syllables[1]
  ELSE IF ~IsBlank(syllables[k].text) THEN syllables[k]
  ELSE FirstWithText(syllables, k + 1)

\* /\b[zZ][+-]?\b|\//.test(musicContent)
HasLineBreak(content) ==
  \/ \E p \in 1..Len(content) : content[p] = "/"
  \/ \E p \in 1..Len(content) :
       /\ content[p] \in {"z", "Z"}
       /\ Boundary(content, p)
       /\ \/ Boundary(content, p + 1)
          \/ (p + 1 <= Len(content) /\ content[p + 1] \in {"+", "-"} /\ Boundary(content, p + 2))

\* /(?<!^[\s\(]*)[cf]b?[1-5]/.test(musicContent)
HasClefChange(content) ==
  \E p \in 1..Len(content) :
    /\ \/ MatchAt(content, p, <<{"c", "f"}, {"1","2","3","4","5"}>>)
       \/ MatchAt(content, p, <<{"c", "f"}, {"b"}, {"1","2","3","4","5"}>>)
    /\ \E k \in 1..(p - 1) : content[k] \notin (WhiteSpace \cup {"("})

\* /^[\s]*<e>|^\s*\\textit\{/.test(textContent)
HasInitialElision(text) ==
  LET p == SkipSpace(text, 1)
  IN \/ MatchAt(text, p, Lit(<<"<","e",">">>))
     \/ MatchAt(text, p, Lit(<<"\\","t","e","x","t","i","t","{">>))

FirstSyllableErrors(syllables) ==
  IF Len(syllables) = 0 THEN <<>>
  ELSE LET firstSyllable == FirstWithText(syllables, 1)
       IN (IF HasLineBreak(firstSyllable.music)
           THEN << ParseError(LINE_BREAK_NOT_SUPPORTED_FIRST_SYLLABLE, firstSyllable.range, SeverityError) >>
           ELSE <<>>)
          \o (IF HasClefChange(firstSyllable.music)
              THEN << ParseError(CLEF_CHANGE_NOT_SUPPORTED_FIRST_SYLLABLE, firstSyllable.range, SeverityError) >>
              ELSE <<>>)
          \o (IF Len(firstSyllable.text) > 0 /\ HasInitialElision(firstSyllable.text)
              THEN << ParseError(ELISION_AT_SCORE_INITIAL, firstSyllable.range, SeverityError) >>
              ELSE <<>>)

AToP == {"a","b","c","d","e","f","g","h","i","j","k","l","m","n","o","p"}

\* first position at or after p that holds a letter a-p of either case, 0 for none
RECURSIVE NextAToP(_, _)
NextAToP(content, p) ==
  IF p > Len(content) THEN 0
  ELSE IF ToLowerChar(content[p]) \in AToP THEN p
  ELSE NextAToP(content, p + 1)

\* the while loop over /([a-p])[^a-p]*([a-p])/gi: TRUE when some pair is
\* more than 7 apart
RECURSIVE LargeAmbitusFrom(_, _)
LargeAmbitusFrom(content, from) ==
  LET p1 == NextAToP(content, from)
      p2 == IF p1 = 0 THEN 0 ELSE NextAToP(content, p1 + 1)
  IN IF p2 = 0 THEN FALSE
     ELSE LET v1 == CharCode(ToLowerChar(content[p1]))
              v2 == CharCode(ToLowerChar(content[p2]))
              ambitus == IF v2 >= v1 THEN v2 - v1 ELSE v1 - v2
          IN ambitus > 7 \/ LargeAmbitusFrom(content, p2 + 1)

RECURSIVE AmbitusWarnings(_, _)
AmbitusWarnings(syllables, k) ==
  IF k > Len(syllables) THEN <<>>
  ELSE (IF LargeAmbitusFrom(syllables[k].music, 1)
        THEN << ParseError(LARGE_AMBITUS_WARNING, syllables[k].range, SeverityWarning) >>
        ELSE <<>>)
       \o AmbitusWarnings(syllables, k + 1)

\* number of non-overlapping matches of the literal w in s from p
RECURSIVE CountLiteral(_, _, _)
CountLiteral(s, p, w) ==
  IF p + Len(w) - 1 > Len(s) THEN 0
  ELSE IF MatchAt(s, p, Lit(w)) THEN 1 + CountLiteral(s, p + Len(w), w)
  ELSE CountLiteral(s, p + 1, w)

RECURSIVE StyleWarnings(_, _)
StyleWarnings(syllables, k) ==
  IF k > Len(syllables) THEN <<>>
  ELSE LET text == syllables[k].text
       IN (IF Len(text) > 0 /\ CountLiteral(text, 1, <<"<","c",">">>) > 1
           THEN << ParseError(SYLLABLE_ALREADY_HAS_CENTER, syllables[k].range, SeverityWarning) >>
           ELSE <<>>)
          \o (IF Len(text) > 0 /\ CountLiteral(text, 1, <<"p","r">>) > 1
              THEN << ParseError(SYLLABLE_ALREADY_HAS_PROTRUSION, syllables[k].range, SeverityWarning) >>
              ELSE <<>>)
          \o StyleWarnings(syllables, k + 1)

validateWarnings(syllables) ==
  FirstSyllableErrors(syllables)
    \o AmbitusWarnings(syllables, 1)
    \o StyleWarnings(syllables, 1)
    \o validateTags([k \in 1..Len(syllables) |-> syllables[k].text])

----------------------------------------------------------------------------
(* Inputs of the server: documents as lines, and settings *)

HeaderLineVocab ==
  { <<"n","a","m","e",":","T",";">>,
    <<"N","A","M","E",":","U",";">>,
    <<"n","a","b","c","-","l","i","n","e","s",":","1",";">> }

BodyLineVocab ==
  { <<"A","(","f",")">>,
    <<"(","f","w","e",")">>,
    <<"<","b",">","B","(","h","w","i",")">>,
    <<"C","(","f","|","f",")">>,
    <<"D","(","u","n",")">>,
    <<"E","(","a","f","p",")">> }

SeqsFromZero(S, n) == UNION { [1..k -> S] : k \in 0..n }

ServerDocs ==
  { hs \o sep \o bs :
      hs \in SeqsFromZero(HeaderLineVocab, MaxHeaderLines),
      sep \in { <<>>, <<PercentPercent>> },
      bs \in SeqsFromZero(BodyLineVocab, MaxBodyLines) } \ { <<>> }

\* defaultSettings of the server, and one change each
defaultSettings ==
  [maxNumberOfProblems |-> 1000,
   enableSemanticValidation |-> TRUE,
   enableNabcLinesValidation |-> TRUE,
   strictAlternationChecking |-> TRUE]

ServerSettings ==
  { defaultSettings,
    [defaultSettings EXCEPT !.maxNumberOfProblems = 1],
    [defaultSettings EXCEPT !.enableSemanticValidation = FALSE],
    [defaultSettings EXCEPT !.enableNabcLinesValidation = FALSE],
    [defaultSettings EXCEPT !.strictAlternationChecking = FALSE] }

----------------------------------------------------------------------------
(* The validation passes of GABCValidator *)

Diagnostic(severity, range, message) ==
  [severity |-> severity, range |-> range, message |-> message,
   source |-> "gregorio-lsp", code |-> "none"]

requiredHeaders == << <<"n","a","m","e">>, <<"o","f","f","i","c","e","-","p","a","r","t">>, <<"m","o","d","e">> >>

validModes ==
  { <<"1">>, <<"2">>, <<"3">>, <<"4">>, <<"5">>, <<"6">>, <<"7">>, <<"8">>,
    <<"I">>, <<"I","I">>, <<"I","I","I">>, <<"I","V">>, <<"V">>, <<"V","I">>,
    <<"V","I","I">>, <<"V","I","I","I">> }

validStyles == { <<"0">>, <<"1">>, <<"2">> }

validateSpecificHeader(header) ==
  LET name == ToLowerCase(header.name)
      value == header.value
  IN IF name = <<"n","a","b","c","-","l","i","n","e","s">>
     THEN (IF ParseInt(value) = NaN
           THEN << Diagnostic(SeverityError, header.range,
                              <<"Invalid nabc-lines value: ", value,
                                ". Expected non-negative integer (0, 1, 2, ...)">>) >>
           ELSE <<>>)
     ELSE IF name = <<"m","o","d","e">>
     THEN (IF value \notin validModes
           THEN << Diagnostic(SeverityWarning, header.range,
                              <<"Unusual mode value: ", value, ". Expected one of: ",
                                "1, 2, 3, 4, 5, 6, 7, 8, I, II, III, IV, V, VI, VII, VIII">>) >>
           ELSE <<>>)
     ELSE IF name = <<"i","n","i","t","i","a","l","-","s","t","y","l","e">>
     THEN (IF value \notin validStyles
           THEN << Diagnostic(SeverityWarning, header.range,
                              <<"Invalid initial-style: ", value, ". Expected one of: ", "0, 1, 2">>) >>
           ELSE <<>>)
     ELSE <<>>

RECURSIVE MissingHeaders(_, _)
MissingHeaders(hs, k) ==
  IF k > Len(requiredHeaders) THEN <<>>
  ELSE (IF Len(FindHeader(hs, requiredHeaders[k])) = 0
        THEN << Diagnostic(SeverityWarning, 0,
                           <<"Missing recommended header: ", requiredHeaders[k]>>) >>
        ELSE <<>>)
       \o MissingHeaders(hs, k + 1)

RECURSIVE SpecificHeaderDiagnostics(_, _)
SpecificHeaderDiagnostics(hs, k) ==
  IF k > Len(hs) THEN <<>>
  ELSE validateSpecificHeader(hs[k]) \o SpecificHeaderDiagnostics(hs, k + 1)

validatorValidateHeaders(hs) == MissingHeaders(hs, 1) \o SpecificHeaderDiagnostics(hs, 1)

\* GABCValidator.validateAlternation: the parser's errors with the severity
\* chosen by strictChecking
validatorValidateAlternation(hs, syllables, strictChecking) ==
  IF ~NabcConfigOf(hs).enabled THEN <<>>
  ELSE LET alternationErrors == validateAlternation(syllables, NabcConfigOf(hs))
       IN [k \in 1..Len(alternationErrors) |->
             Diagnostic(IF strictChecking THEN SeverityError ELSE SeverityWarning,
                        alternationErrors[k].range, alternationErrors[k].message)]

RECURSIVE MusicDiagnostics(_, _)
MusicDiagnostics(syllables, k) ==
  IF k > Len(syllables) THEN <<>>
  ELSE validateMusicElement(syllables[k].music, syllables[k].isNabc, syllables[k].range)
         \o MusicDiagnostics(syllables, k + 1)

validateMusicNotation(syllables) == MusicDiagnostics(syllables, 1)

\* parseMusicSection gives every syllable a music element, and a text element
\* only when the trimmed text is not empty
RECURSIVE SyllableDiagnostics(_, _)
SyllableDiagnostics(syllables, k) ==
  IF k > Len(syllables) THEN <<>>
  ELSE (IF Len(syllables[k].text) = 0
        THEN << Diagnostic(SeverityInformation, syllables[k].range,
                           <<"Syllable has music notation but no text">>) >>
        ELSE <<>>)
       \o SyllableDiagnostics(syllables, k + 1)

validateSyllableStructure(syllables) == SyllableDiagnostics(syllables, 1)

----------------------------------------------------------------------------
(* The server: validateTextDocument and the pull-diagnostics handler *)

SrvInit ==
  /\ lines \in ServerDocs
  /\ \A k \in 1..Len(parseMusicSection(MusicText(lines))) :
       ~HasNabcMatch(parseMusicSection(MusicText(lines))[k].music)
  /\ settings \in ServerSettings
  /\ request = "none"
  /\ srvPc = "open"
  /\ astHeaders = <<>>
  /\ astSyllables = <<>>
  /\ allErrors = <<>>
  /\ parseResult = [success |-> FALSE, hasAst |-> FALSE, errors |-> <<>>]
  /\ validated = <<>>
  /\ published = <<>>

\* documents.onDidChangeContent: validateTextDocument(change.document)
SrvDidChangeContent ==
  /\ srvPc = "open"
  /\ request' = "push"
  /\ srvPc' = "split"
  /\ UNCHANGED <<lines, settings, astHeaders, astSyllables, allErrors, parseResult,
                 validated, published>>
  /\ UNCHANGED notSrvVars

\* connection.languages.diagnostics.on: validateAndGetDiagnostics(document)
SrvPullDiagnostics ==
  /\ srvPc = "open"
  /\ request' = "pull"
  /\ srvPc' = "split"
  /\ UNCHANGED <<lines, settings, astHeaders, astSyllables, allErrors, parseResult,
                 validated, published>>
  /\ UNCHANGED notSrvVars

\* fallbackParse: the header loop and parseMusicSection build the ast
SrvSplit ==
  /\ srvPc = "split"
  /\ astHeaders' = ParsedHeaders(lines)
  /\ astSyllables' = parseMusicSection(MusicText(lines))
  /\ srvPc' = "parserHeaders"
  /\ UNCHANGED <<lines, settings, request, allErrors, parseResult, validated, published>>
  /\ UNCHANGED notSrvVars

\* allErrors.push(...this.validateHeaders(ast))
SrvParserHeaders ==
  /\ srvPc = "parserHeaders"
  /\ allErrors' = allErrors \o parserValidateHeaders(astHeaders)
  /\ srvPc' = "parserAlternation"
  /\ UNCHANGED <<lines, settings, request, astHeaders, astSyllables, parseResult,
                 validated, published>>
  /\ UNCHANGED notSrvVars

\* allErrors.push(...this.validateAlternation(ast, nabcConfig))
SrvParserAlternation ==
  /\ srvPc = "parserAlternation"
  /\ allErrors' = allErrors \o validateAlternation(astSyllables, NabcConfigOf(astHeaders))
  /\ srvPc' = "parserNotation"
  /\ UNCHANGED <<lines, settings, request, astHeaders, astSyllables, parseResult,
                 validated, published>>
  /\ UNCHANGED notSrvVars

\* allErrors.push(...this.validateNotation(ast))
SrvParserNotation ==
  /\ srvPc = "parserNotation"
  /\ allErrors' = allErrors \o validateNotation(astHeaders, astSyllables)
  /\ srvPc' = "parserWarnings"
  /\ UNCHANGED <<lines, settings, request, astHeaders, astSyllables, parseResult,
                 validated, published>>
  /\ UNCHANGED notSrvVars

\* allErrors.push(...this.validateWarnings(ast))
SrvParserWarnings ==
  /\ srvPc = "parserWarnings"
  /\ allErrors' = allErrors \o validateWarnings(astSyllables)
  /\ srvPc' = "parserReturn"
  /\ UNCHANGED <<lines, settings, request, astHeaders, astSyllables, parseResult,
                 validated, published>>
  /\ UNCHANGED notSrvVars

HasError(es) == \E k \in 1..Len(es) : es[k].severity = 1

\* return { success: no error of severity 1, ast, errors: allErrors }
SrvParseReturn ==
  /\ srvPc = "parserReturn"
  /\ parseResult' = [success |-> ~HasError(allErrors), hasAst |-> TRUE, errors |-> allErrors]
  /\ srvPc' = "parsed"
  /\ UNCHANGED <<lines, settings, request, astHeaders, astSyllables, allErrors,
                 validated, published>>
  /\ UNCHANGED notSrvVars

\* variant of SrvParseCatch: the exception leaves parse
SrvParseCatch_uncaught ==
  /\ srvPc \in {"split", "parserHeaders", "parserAlternation", "parserNotation",
                "parserWarnings", "parserReturn"}
  /\ srvPc' = "exception"
  /\ UNCHANGED <<lines, settings, request, astHeaders, astSyllables, allErrors,
                 parseResult, validated, published>>
  /\ UNCHANGED notSrvVars

\* a step of fallbackParse throws: catch (error) returns success false with
\* the one Error 'Fallback parse error: ...'
SrvParseCatch ==
  /\ srvPc \in {"split", "parserHeaders", "parserAlternation", "parserNotation",
                "parserWarnings", "parserReturn"}
  /\ parseResult' = [success |-> FALSE, hasAst |-> FALSE,
                     errors |-> << ParseError(<<"Fallback parse error: ", "error">>, 0, 1) >>]
  /\ srvPc' = "parsed"
  /\ UNCHANGED <<lines, settings, request, astHeaders, astSyllables, allErrors,
                 validated, published>>
  /\ UNCHANGED notSrvVars

\* parseResult.errors.map(error => ({ severity: 1, range, message, source }))
ParseErrorsAsDiagnostics(es) ==
  [k \in 1..Len(es) |->
     [severity |-> 1, range |-> es[k].range, message |-> es[k].message,
      source |-> "gregorio-lsp"]]

\* validateTextDocument, if (!parseResult.success): sendDiagnostics, return
SrvSendParseErrors ==
  /\ srvPc = "parsed"
  /\ request = "push"
  /\ ~parseResult.success
  /\ published' = ParseErrorsAsDiagnostics(parseResult.errors)
  /\ srvPc' = "done"
  /\ UNCHANGED <<lines, settings, request, astHeaders, astSyllables, allErrors,
                 parseResult, validated>>
  /\ UNCHANGED notSrvVars

\* validateAndGetDiagnostics, if (!parseResult.success): return the mapped errors
SrvReturnParseErrors ==
  /\ srvPc = "parsed"
  /\ request = "pull"
  /\ ~parseResult.success
  /\ published' = ParseErrorsAsDiagnostics(parseResult.errors)
  /\ srvPc' = "done"
  /\ UNCHANGED <<lines, settings, request, astHeaders, astSyllables, allErrors,
                 parseResult, validated>>
  /\ UNCHANGED notSrvVars

\* validate: extractNABCConfiguration, then validateHeaders
SrvValidatorHeaders ==
  /\ srvPc = "parsed"
  /\ parseResult.success
  /\ validated' = validated \o validatorValidateHeaders(astHeaders)
  /\ srvPc' = "validatorAlternation"
  /\ UNCHANGED <<lines, settings, request, astHeaders, astSyllables, allErrors,
                 parseResult, published>>
  /\ UNCHANGED notSrvVars

\* if (settings.enableNabcLinesValidation && nabcConfig.enabled)
SrvValidatorAlternation ==
  /\ srvPc = "validatorAlternation"
  /\ validated' = IF settings.enableNabcLinesValidation /\ NabcConfigOf(astHeaders).enabled
                  THEN validated \o validatorValidateAlternation(astHeaders, astSyllables,
                                        settings.strictAlternationChecking)
                  ELSE validated
  /\ srvPc' = "validatorMusic"
  /\ UNCHANGED <<lines, settings, request, astHeaders, astSyllables, allErrors,
                 parseResult, published>>
  /\ UNCHANGED notSrvVars

\* if (settings.enableSemanticValidation)
SrvValidatorMusic ==
  /\ srvPc = "validatorMusic"
  /\ validated' = IF settings.enableSemanticValidation
                  THEN validated \o validateMusicNotation(astSyllables)
                  ELSE validated
  /\ srvPc' = "validatorSyllables"
  /\ UNCHANGED <<lines, settings, request, astHeaders, astSyllables, allErrors,
                 parseResult, published>>
  /\ UNCHANGED notSrvVars

\* validateSyllableStructure, then return diagnostics
SrvValidatorSyllables ==
  /\ srvPc = "validatorSyllables"
  /\ validated' = validated \o validateSyllableStructure(astSyllables)
  /\ srvPc' = "validated"
  /\ UNCHANGED <<lines, settings, request, astHeaders, astSyllables, allErrors,
                 parseResult, published>>
  /\ UNCHANGED notSrvVars

\* a pass of validate throws: catch (error) pushes 'Validation error: ...'
\* onto the diagnostics collected so far, which validate then returns
SrvValidateCatch ==
  /\ \/ srvPc = "parsed" /\ parseResult.success
     \/ srvPc \in {"validatorAlternation", "validatorMusic", "validatorSyllables"}
  /\ validated' = Append(validated,
                         [severity |-> SeverityError, range |-> 0,
                          message |-> <<"Validation error: ", "error">>,
                          source |-> "gregorio-lsp"])
  /\ srvPc' = "validated"
  /\ UNCHANGED <<lines, settings, request, astHeaders, astSyllables, allErrors,
                 parseResult, published>>
  /\ UNCHANGED notSrvVars

\* Array.slice(0, n)
Slice(xs, n) == SubSeq(xs, 1, IF n < Len(xs) THEN n ELSE Len(xs))

\* sendDiagnostics({ uri, diagnostics: diagnostics.slice(0, settings.maxNumberOfProblems) })
SrvSendDiagnostics ==
  /\ srvPc = "validated"
  /\ request = "push"
  /\ published' = Slice(validated, settings.maxNumberOfProblems)
  /\ srvPc' = "done"
  /\ UNCHANGED <<lines, settings, request, astHeaders, astSyllables, allErrors,
                 parseResult, validated>>
  /\ UNCHANGED notSrvVars

\* return await validator.validate(parseResult.ast, textDocument, settings)
SrvReturnDiagnostics ==
  /\ srvPc = "validated"
  /\ request = "pull"
  /\ published' = validated
  /\ srvPc' = "done"
  /\ UNCHANGED <<lines, settings, request, astHeaders, astSyllables, allErrors,
                 parseResult, validated>>
  /\ UNCHANGED notSrvVars

InitServer == SrvInit /\ AltIdle /\ TagIdle /\ ValIdle /\ NabcIdle /\ LifeIdle

NextServer ==
  \/ SrvDidChangeContent
  \/ SrvPullDiagnostics
  \/ SrvSplit
  \/ SrvParserHeaders
  \/ SrvParserAlternation
  \/ SrvParserNotation
  \/ SrvParserWarnings
  \/ SrvParseReturn
  \/ SrvParseCatch
  \/ SrvSendParseErrors
  \/ SrvReturnParseErrors
  \/ SrvValidatorHeaders
  \/ SrvValidatorAlternation
  \/ SrvValidatorMusic
  \/ SrvValidatorSyllables
  \/ SrvValidateCatch
  \/ SrvSendDiagnostics
  \/ SrvReturnDiagnostics

SpecServer == InitServer /\ [][NextServer]_vars

----------------------------------------------------------------------------
(* The server: open documents, settings cache, suspended validations *)

Uris == {"a.gabc", "b.gabc"}

Range(f) == { f[k] : k \in DOMAIN f }

\* Array.filter: the sequence without the entries equal to x
Without(xs, x) == LET Keep(y) == y # x IN SelectSeq(xs, Keep)

\* a Map as a function on its keys (<<>> is the empty Map)
MapSet(m, key, value) == [k \in DOMAIN m \cup {key} |-> IF k = key THEN value ELSE m[k]]
MapDelete(m, key) == [k \in DOMAIN m \ {key} |-> m[k]]

\* the part of the life state that a call of validateTextDocument or
\* validateAndGetDiagnostics changes
LifeState ==
  [documentSettings |-> documentSettings, configurationRequests |-> configurationRequests,
   awaiting |-> awaiting, sentDiagnostics |-> sentDiagnostics, promiseCount |-> promiseCount]

\* validateTextDocument(uri) (request "push") or validateAndGetDiagnostics(uri)
\* (request "pull") from the state st: getDocumentSettings runs at once; the
\* call is suspended when its promise is a configuration request that is not
\* settled, and runs to its end otherwise (a push ends with sendDiagnostics)
StartValidation(st, uri, kind) ==
  IF ~hasConfigurationCapability
  THEN \* Promise.resolve(globalSettings)
       IF kind = "push"
       THEN [st EXCEPT !.sentDiagnostics = Append(@, uri)]
       ELSE st
  ELSE IF uri \in DOMAIN st.documentSettings
  THEN LET result == st.documentSettings[uri]
       IN IF result \in st.configurationRequests
          THEN [st EXCEPT !.awaiting =
                            Append(@, [uri |-> uri, request |-> kind, promise |-> result])]
          ELSE IF kind = "push"
          THEN [st EXCEPT !.sentDiagnostics = Append(@, uri)]
          ELSE st
  ELSE \* result = connection.workspace.getConfiguration(...); documentSettings.set
       LET result == st.promiseCount + 1
       IN [st EXCEPT !.promiseCount = result,
                     !.configurationRequests = @ \cup {result},
                     !.documentSettings = MapSet(@, uri, result),
                     !.awaiting =
                       Append(@, [uri |-> uri, request |-> kind, promise |-> result])]

\* documents.all().forEach(validateTextDocument) for the documents k..
RECURSIVE ValidateAll(_, _, _)
ValidateAll(st, docs, k) ==
  IF k > Len(docs) THEN st
  ELSE ValidateAll(StartValidation(st, docs[k], "push"), docs, k + 1)

SetLifeState(st) ==
  /\ documentSettings' = st.documentSettings
  /\ configurationRequests' = st.configurationRequests
  /\ awaiting' = st.awaiting
  /\ sentDiagnostics' = st.sentDiagnostics
  /\ promiseCount' = st.promiseCount

LifeInit ==
  /\ hasConfigurationCapability \in BOOLEAN
  /\ documents = <<>>
  /\ documentSettings = <<>>
  /\ configurationRequests = {}
  /\ awaiting = <<>>
  /\ sentDiagnostics = <<>>
  /\ promiseCount = 0
  /\ eventCount = 0

\* textDocument/didOpen: the document is added, onDidChangeContent fires
LifeDidOpen ==
  /\ eventCount < MaxEvents
  /\ \E uri \in Uris \ Range(documents) :
       /\ documents' = Append(documents, uri)
       /\ SetLifeState(StartValidation(LifeState, uri, "push"))
  /\ eventCount' = eventCount + 1
  /\ UNCHANGED hasConfigurationCapability
  /\ UNCHANGED notLifeVars

\* textDocument/didChange: documents.onDidChangeContent
LifeDidChangeContent ==
  /\ eventCount < MaxEvents
  /\ \E uri \in Range(documents) :
       SetLifeState(StartValidation(LifeState, uri, "push"))
  /\ eventCount' = eventCount + 1
  /\ UNCHANGED <<hasConfigurationCapability, documents>>
  /\ UNCHANGED notLifeVars

\* variant of LifeDidClose that keeps the cached settings of the document
LifeDidClose_keepSettings ==
  /\ eventCount < MaxEvents
  /\ \E uri \in Range(documents) :
       /\ documents' = Without(documents, uri)
       /\ documentSettings' = documentSettings
  /\ eventCount' = eventCount + 1
  /\ UNCHANGED <<hasConfigurationCapability, configurationRequests, awaiting,
                 sentDiagnostics, promiseCount>>
  /\ UNCHANGED notLifeVars

\* textDocument/didClose: the document is removed, documents.onDidClose
LifeDidClose ==
  /\ eventCount < MaxEvents
  /\ \E uri \in Range(documents) :
       /\ documents' = Without(documents, uri)
       /\ documentSettings' = MapDelete(documentSettings, uri)
  /\ eventCount' = eventCount + 1
  /\ UNCHANGED <<hasConfigurationCapability, configurationRequests, awaiting,
                 sentDiagnostics, promiseCount>>
  /\ UNCHANGED notLifeVars

\* connection.onDidChangeConfiguration
LifeDidChangeConfiguration ==
  /\ eventCount < MaxEvents
  /\ SetLifeState(
       ValidateAll(IF hasConfigurationCapability
                   THEN [LifeState EXCEPT !.documentSettings = <<>>]
                   ELSE LifeState,
                   documents, 1))
  /\ eventCount' = eventCount + 1
  /\ UNCHANGED <<hasConfigurationCapability, documents>>
  /\ UNCHANGED notLifeVars

\* connection.languages.diagnostics.on: textDocument/diagnostic for any URI
LifePullDiagnostics ==
  /\ eventCount < MaxEvents
  /\ \E uri \in Uris :
       IF uri \in Range(documents)
       THEN SetLifeState(StartValidation(LifeState, uri, "pull"))
       ELSE SetLifeState(LifeState)
  /\ eventCount' = eventCount + 1
  /\ UNCHANGED <<hasConfigurationCapability, documents>>
  /\ UNCHANGED notLifeVars

\* the URIs of the pushes among the calls k.. that wait for the promise
RECURSIVE ResumedPushes(_, _, _)
ResumedPushes(calls, k, promise) ==
  IF k > Len(calls) THEN <<>>
  ELSE (IF calls[k].promise = promise /\ calls[k].request = "push"
        THEN <<calls[k].uri>> ELSE <<>>)
       \o ResumedPushes(calls, k + 1, promise)

\* the client answers a workspace/configuration request: every call that
\* awaits the promise resumes, parses, validates, and a push sends its
\* diagnostics
LifeConfigurationResponse ==
  /\ \E promise \in configurationRequests :
       /\ configurationRequests' = configurationRequests \ {promise}
       /\ sentDiagnostics' = sentDiagnostics \o ResumedPushes(awaiting, 1, promise)
       /\ awaiting' = LET Other(c) == c.promise # promise IN SelectSeq(awaiting, Other)
  /\ UNCHANGED <<hasConfigurationCapability, documents, documentSettings,
                 promiseCount, eventCount>>
  /\ UNCHANGED notLifeVars

InitLife == LifeInit /\ AltIdle /\ TagIdle /\ ValIdle /\ SrvIdle /\ NabcIdle

NextLife ==
  \/ LifeDidOpen
  \/ LifeDidChangeContent
  \/ LifeDidClose
  \/ LifeDidChangeConfiguration
  \/ LifePullDiagnostics
  \/ LifeConfigurationResponse

SpecLife == InitLife /\ [][NextLife]_vars

----------------------------------------------------------------------------
(* Properties of the alternation pass (checked under Spec) *)

\* errors of e whose range is the music range of syllable s
ErrorsOf(es, s) == LET InS(e) == e.range = s IN SelectSeq(es, InS)

ErrorsWithCode(es, c) == LET HasC(e) == e.code = c IN SelectSeq(es, HasC)

\* the pattern GABC, NABC x N, GABC x N, NABC x N, ... of period 2N
ExpectedKindIsNabc(i, N) == i >= 1 /\ ((i - 1) % (2 * N)) < N

HeaderAbsentOrZero ==
  \A k \in 1..Len(headers) :
    IsNabcLinesName(headers[k].name) => headers[k].value = <<"0">>

\* C2: without nabc-lines (absent or 0) the finished pass holds, for every
\* group, exactly one invalid_pipe_without_nabc Error with the fixed message
\* when the group contains a '|', and none when it does not.
C2_PipeWithoutNabcLines ==
  (altPc = "done" /\ HeaderAbsentOrZero) =>
    \A s \in 1..Len(musics) :
      LET pipeErrors == ErrorsWithCode(ErrorsOf(errors, s), "invalid_pipe_without_nabc")
      IN /\ Len(pipeErrors) = IF CountChar(musics[s], "|") >= 1 THEN 1 ELSE 0
         /\ \A k \in 1..Len(pipeErrors) :
              /\ pipeErrors[k].severity = 1
              /\ pipeErrors[k].message =
                   "You used character \"|\" in gabc without setting \"nabc-lines\" parameter. Please set it in your gabc header."

\* the group (f|g|h) without a nabc-lines header got its one error
C2_Witness ==
  /\ altPc = "done"
  /\ headers = <<>>
  /\ musics = << <<"f","|","g","|","h">> >>
  /\ Len(ErrorsWithCode(errors, "invalid_pipe_without_nabc")) = 1

\* the violations of the snippets i, i+1, ... of one group, in order
RECURSIVE ViolationsFrom(_, _, _, _)
ViolationsFrom(snips, i, N, s) ==
  IF i >= Len(snips) THEN <<>>
  ELSE LET expected == ExpectedKindIsNabc(i, N)
           found == isNabcSnippet(snips[i + 1])
       IN (IF expected # found
           THEN << [message |-> << "Expected ",
                                   IF expected THEN "NABC" ELSE "GABC",
                                   " notation but found ",
                                   IF found THEN "NABC" ELSE "GABC",
                                   " in group snippet ", i + 1 >>,
                    range |-> s,
                    severity |-> 1,
                    code |-> "alternation_violation"] >>
           ELSE <<>>)
          \o ViolationsFrom(snips, i + 1, N, s)

\* a group of three snippets detected as GABC, NABC, NABC
ShapeGNN(content) ==
  LET snips == parseNoteGroups(content)
  IN /\ Len(snips) = 3
     /\ ~isNabcSnippet(snips[1])
     /\ isNabcSnippet(snips[2])
     /\ isNabcSnippet(snips[3])

GabcAlphabet ==
  {"a","b","c","d","e","f","g","h","i","j","k","l","m"}
    \cup {"w", "W", "v", "o", "s", "!", "/"}

IsOrdinaryGabc(snippet) ==
  /\ Len(snippet) > 0
  /\ \A k \in 1..Len(snippet) : snippet[k] \in GabcAlphabet

\* C4: a snippet made only of GABC pitch letters and shape markers is never
\* classified NABC by isNabcSnippet.
C4_GabcNeverNabc ==
  (altPc \in {"alternation", "gabconly"} /\ idx >= 1 /\ IsOrdinaryGabc(snippets[idx]))
    => ~isNabc

\* C9: after the split, joining the snippets with '|' gives back the group
\* content, there is one snippet more than there are '|' characters, and a
\* content without '|' is its own single snippet.
C9_SplitRoundTrip ==
  (altPc \in {"pipe", "gabconly", "alternation"}) =>
    /\ Join(snippets, <<"|">>) = musics[syl]
    /\ Len(snippets) = CountChar(musics[syl], "|") + 1
    /\ (CountChar(musics[syl], "|") = 0 => snippets = <<musics[syl]>>)

\* the content "|f" was split into an empty snippet and f
C9_Witness ==
  /\ altPc \in {"pipe", "gabconly", "alternation"}
  /\ musics[syl] = <<"|", "f">>
  /\ snippets = << <<>>, <<"f">> >>

\* the nabc-lines headers of the document, in source order
NabcLinesHeaders(hs) == LET IsNL(h) == IsNabcLinesName(h.name) IN SelectSeq(hs, IsNL)

\* the period given by the last nabc-lines definition, 0 when there is none
LastDefinitionPeriod(hs) ==
  LET defs == NabcLinesHeaders(hs)
  IN IF Len(defs) = 0 THEN 0
     ELSE IF Len(defs[Len(defs)].value) = 0 THEN 0
     ELSE ParseInt(StripSemicolon(defs[Len(defs)].value))

\* C17: when nabc-lines is defined several times, the configuration returned
\* by extractNABCConfiguration (enabled flag, period used by the alternation
\* pass) is derived from the last definition.
C17_LastDefinitionWins ==
  (altPc \notin {"start", "idle"}) =>
    /\ extractNABCConfiguration(headers).enabled
         = (LastDefinitionPeriod(headers) # NaN /\ LastDefinitionPeriod(headers) > 0)
    /\ alternationPeriod = LastDefinitionPeriod(headers)

\* C19: with nabc-lines: N > 0 the expected pattern inside a group is one GABC
\* snippet followed by N NABC snippets, repeated: snippet i is expected GABC
\* exactly when i mod (N+1) = 0.
C19_OneGabcThenNNabc ==
  (altPc = "alternation" /\ idx >= 1 /\ alternationPeriod > 0)
    => (shouldBeNabc = (((idx - 1) % (alternationPeriod + 1)) # 0))

\* the 1-based numbers of the empty or whitespace-only snippets of a group
BlankSnippets(content) ==
  LET snips == parseNoteGroups(content)
  IN { i \in 1..Len(snips) : IsBlank(snips[i]) }

\* C20: an empty or whitespace-only snippet is neutral: for every period
\* N > 0 it produces no alternation_violation whatever its index, and for
\* period 0 it produces no nabc_in_gabc_only_mode error.
C20_EmptySnippetNeutral ==
  (altPc = "done") =>
    \A s \in 1..Len(musics) :
      LET es == ErrorsOf(errors, s)
          snips == parseNoteGroups(musics[s])
      IN /\ (alternationPeriod > 0) =>
              \A k \in 1..Len(es) :
                es[k].code = ALTERNATION_VIOLATION => es[k].message[6] \notin BlankSnippets(musics[s])
         /\ (alternationPeriod = 0) =>
              Len(ErrorsWithCode(es, NABC_IN_GABC_ONLY_MODE))
                = Cardinality({ i \in 1..Len(snips) :
                                  ~IsBlank(snips[i]) /\ isNabcSnippet(snips[i]) })

----------------------------------------------------------------------------
(* Properties of the tag pass (checked under SpecTags) *)

TagWhitelist ==
  { <<"b">>, <<"i">>, <<"s","c">>, <<"u","l">>, <<"v">>, <<"c">>, <<"e">>,
    <<"n","l","b","a">>, <<"p","r">>, <<"a","l","t">> }

\* every tag of the text t of syllable s from position from on, in source order
RECURSIVE TagsOfText(_, _, _)
TagsOfText(t, from, s) ==
  LET m == NextTag(t, from)
  IN IF ~m.found THEN <<>>
     ELSE << [closing |-> m.closing, name |-> m.name, syllable |-> s] >>
            \o TagsOfText(t, m.last + 1, s)

RECURSIVE TagsOfDoc(_, _)
TagsOfDoc(ts, s) ==
  IF s > Len(ts) THEN <<>> ELSE TagsOfText(ts[s], 1, s) \o TagsOfDoc(ts, s + 1)

\* the whitelisted tags of the document, in source order
WhitelistedTags(ts) ==
  LET OnList(t) == t.name \in TagWhitelist IN SelectSeq(TagsOfDoc(ts, 1), OnList)

UnknownTags(ts) ==
  LET OffList(t) == t.name \notin TagWhitelist IN SelectSeq(TagsOfDoc(ts, 1), OffList)

\* a tag sequence is balanced and properly nested when deleting adjacent
\* pairs <t></t> again and again leaves nothing
RECURSIVE IsBalanced(_)
IsBalanced(tags) ==
  IF Len(tags) = 0 THEN TRUE
  ELSE LET pairs == { k \in 1..(Len(tags) - 1) :
                        /\ ~tags[k].closing
                        /\ tags[k + 1].closing
                        /\ tags[k].name = tags[k + 1].name }
       IN IF pairs = {} THEN FALSE
          ELSE LET k == CHOOSE j \in pairs : TRUE
               IN IsBalanced(SubSeq(tags, 1, k - 1) \o SubSeq(tags, k + 2, Len(tags)))

\* C5: when the whitelisted tags of the syllable texts, read in source order,
\* are balanced and properly nested, the finished pass has no diagnostic and
\* an empty stack, also when opener and closer lie in different syllables.
C5_BalancedTagsClean ==
  (tagPc = "done" /\ IsBalanced(WhitelistedTags(texts)))
    => (tagErrors = <<>> /\ tagStack = <<>>)

\* <b><i> in the first syllable, </i></b> in the second: no diagnostic
C5_Witness ==
  /\ tagPc = "done"
  /\ texts = << <<"<","b",">","<","i",">">>, <<"<","/","i",">","<","/","b",">">> >>
  /\ tagErrors = <<>>
  /\ tagStack = <<>>

\* the whitelisted tags are <x><y></x></y> with x # y
IsSwappedClosing(tags) ==
  /\ Len(tags) = 4
  /\ ~tags[1].closing /\ ~tags[2].closing
  /\ tags[3].closing /\ tags[4].closing
  /\ tags[1].name = tags[3].name
  /\ tags[2].name = tags[4].name
  /\ tags[1].name # tags[2].name

\* C6 as stated: a swapped closing order <x><y></x></y> yields exactly one
\* diagnostic in total, the unclosed_tag of the inner tag y; the later closer
\* </y> is not reported.
C6_SwappedOneDiagnostic ==
  (tagPc = "done" /\ IsSwappedClosing(WhitelistedTags(texts))) =>
    /\ Len(tagErrors) = 1
    /\ tagErrors[1].message = <<"unclosed tag: <", WhitelistedTags(texts)[2].name, ">">>

\* C6 as amended: a swapped closing order <x><y></x></y> yields exactly two
\* diagnostics: the unclosed_tag of the inner tag y, reported at </x>, and
\* then an unmatched_closing_tag for the later closer </y>; nothing is left on
\* the stack.
C6_SwappedTwoDiagnostics ==
  (tagPc = "done" /\ IsSwappedClosing(WhitelistedTags(texts))) =>
    LET tags == WhitelistedTags(texts)
    IN /\ tagErrors =
            << [message |-> <<"unclosed tag: <", tags[2].name, ">">>,
                range |-> tags[2].syllable, severity |-> 1],
               [message |-> <<"unmatched closing tag: </", tags[4].name, ">">>,
                range |-> tags[4].syllable, severity |-> 1] >>
       /\ tagStack = <<>>

\* <b><i></b></i> in one syllable ended with its two diagnostics
C6_Witness ==
  /\ tagPc = "done"
  /\ texts = << <<"<","b",">","<","i",">","<","/","b",">","<","/","i",">">> >>
  /\ Len(tagErrors) = 2

\* the text t without its tags that are not on the white list
RECURSIVE StripUnknownText(_, _)
StripUnknownText(t, from) ==
  LET m == NextTag(t, from)
  IN IF ~m.found THEN SubSeq(t, from, Len(t))
     ELSE SubSeq(t, from, m.index - 1)
            \o (IF m.name \in TagWhitelist THEN SubSeq(t, m.index, m.last) ELSE <<>>)
            \o StripUnknownText(t, m.last + 1)

StripUnknown(ts) == [s \in 1..Len(ts) |-> StripUnknownText(ts[s], 1)]

\* C7: tags that are not on the white list are never on the stack, no
\* diagnostic names them, and the diagnostics of the finished pass are those
\* of the same texts with every such tag removed.
C7_UnknownTagsIgnored ==
  /\ \A k \in 1..Len(tagStack) : tagStack[k].tag \in TagWhitelist
  /\ \A k \in 1..Len(tagErrors) : tagErrors[k].message[2] \in TagWhitelist
  /\ (tagPc = "done") => (tagErrors = validateTags(StripUnknown(texts)))

\* <foo><b></foo> ended with the one diagnostic of <b>
C7_Witness ==
  /\ tagPc = "done"
  /\ texts = << <<"<","f","o","o",">","<","b",">","<","/","f","o","o",">">> >>
  /\ tagErrors = << [message |-> <<"unclosed tag: <", <<"b">>, ">">>,
                     range |-> 1, severity |-> 1] >>

\* the unclosed_tag Errors of the entries of a stack, bottom first
UnclosedErrorsOf(stack) ==
  [k \in 1..Len(stack) |->
     [message |-> <<"unclosed tag: <", stack[k].tag, ">">>,
      range |-> stack[k].syllable,
      severity |-> 1]]

OpenersOnly(tags) == \A k \in 1..Len(tags) : ~tags[k].closing

\* C8: the end-of-document step adds exactly one unclosed_tag Error
\* 'unclosed tag: <name>' per entry left on the stack, so that a document of
\* n whitelisted openers and no closer ends with exactly these n Errors.
C8_RemainingReported ==
  /\ [][tagPc = "remaining" => tagErrors' = tagErrors \o UnclosedErrorsOf(tagStack)]_vars
  /\ [](tagPc = "done" =>
          /\ Len(tagErrors) >= Len(tagStack)
          /\ SubSeq(tagErrors, Len(tagErrors) - Len(tagStack) + 1, Len(tagErrors))
               = UnclosedErrorsOf(tagStack)
          /\ OpenersOnly(WhitelistedTags(texts)) =>
               /\ Len(tagErrors) = Len(WhitelistedTags(texts))
               /\ tagErrors = UnclosedErrorsOf(tagStack))

\* Ky<b>ri<i>e with no closer ended with two unclosed_tag Errors
C8_Witness ==
  /\ tagPc = "done"
  /\ texts = << <<"<","b",">">>, <<"<","i",">">> >>
  /\ Len(tagStack) = 2
  /\ Len(tagErrors) = 2

----------------------------------------------------------------------------
(* Properties of the music notation pass (checked under SpecValidate) *)

DiagnosticsWithCode(ds, c) == LET HasC(d) == d.code = c IN SelectSeq(ds, HasC)

\* the positions of content that hold a pitch letter a-m directly followed by
\* w or W and not directly preceded by '!'
UnbrokenQuilismas(content) ==
  { p \in 1..(Len(content) - 1) :
      /\ content[p] \in {"a","b","c","d","e","f","g","h","i","j","k","l","m"}
      /\ content[p + 1] \in {"w", "W"}
      /\ (p = 1 \/ content[p - 1] # "!") }

RECURSIVE SumOver(_, _)
SumOver(ns, k) == IF k > Len(ns) THEN 0 ELSE ns[k] + SumOver(ns, k + 1)

\* C10: with semantic validation enabled and no nabc-lines, the diagnostics
\* hold exactly one quilisma-glyph-break Information per pitch letter directly
\* followed by w or W and not preceded by '!', over all groups; Bad(gwf)worse(fwe)
\* gives two suggestions and two ascending-motion warnings, and
\* Good(g!wh)example(f!wi) gives none of either.
C10_GlyphBreakPerQuilisma ==
  (valPc = "done" /\ enableSemanticValidation) =>
    LET breaks == DiagnosticsWithCode(diagnostics, "quilisma-glyph-break")
        motions == DiagnosticsWithCode(diagnostics, "quilisma-ascending-motion")
    IN /\ Len(breaks) =
            SumOver([s \in 1..Len(contents) |-> Cardinality(UnbrokenQuilismas(contents[s]))], 1)
       /\ \A k \in 1..Len(breaks) : breaks[k].severity = 3
       /\ (contents = << <<"g","w","f">>, <<"f","w","e">> >>)
            => (Len(breaks) = 2 /\ Len(motions) = 2)
       /\ (contents = << <<"g","!","w","h">>, <<"f","!","w","i">> >>)
            => (Len(breaks) = 0 /\ Len(motions) = 0)

\* the first position at or after from that holds a pitch letter a-m, 0 for none
RECURSIVE NextPitchLetter(_, _)
NextPitchLetter(content, from) ==
  IF from > Len(content) THEN 0
  ELSE IF content[from] \in {"a","b","c","d","e","f","g","h","i","j","k","l","m"} THEN from
  ELSE NextPitchLetter(content, from + 1)

QuilismaOccurrences(content) ==
  { p \in 1..(Len(content) - 1) :
      /\ content[p] \in {"a","b","c","d","e","f","g","h","i","j","k","l","m"}
      /\ content[p + 1] \in {"w", "W"} }

PitchValue(c) == CHOOSE k \in 0..12 : <<"a","b","c","d","e","f","g","h","i","j","k","l","m">>[k + 1] = c

\* C11: for each quilisma occurrence of a GABC content string the outcome is
\* decided by the next pitch letter occurring later in the same string:
\* quilisma-no-following-note iff no pitch letter follows anywhere,
\* quilisma-ascending-motion iff the next pitch letter exists and is not higher
\* than the quilisma's pitch, and no warning iff it is strictly higher.
C11_NextPitchDecides ==
  (valPc = "done" /\ enableSemanticValidation) =>
    \A s \in 1..Len(contents) :
      (~musicIsNabc[s]) =>
        LET c == contents[s]
            ds == LET InS(d) == d.range = s IN SelectSeq(diagnostics, InS)
            absent == { p \in QuilismaOccurrences(c) : NextPitchLetter(c, p + 2) = 0 }
            notHigher == { p \in QuilismaOccurrences(c) :
                             /\ NextPitchLetter(c, p + 2) # 0
                             /\ PitchValue(c[NextPitchLetter(c, p + 2)]) <= PitchValue(c[p]) }
        IN /\ Len(DiagnosticsWithCode(ds, "quilisma-no-following-note")) = Cardinality(absent)
           /\ Len(DiagnosticsWithCode(ds, "quilisma-ascending-motion")) = Cardinality(notHigher)

----------------------------------------------------------------------------
(* Properties of the server (checked under SpecServer) *)

\* C12: every diagnostics list the server reports for a document, pushed by
\* validateTextDocument or returned by the pull handler, on the parse-failure
\* path as on the parse-success path, has at most maxNumberOfProblems entries.
C12_AtMostMaxProblems ==
  (srvPc = "done") => Len(published) <= settings.maxNumberOfProblems

IsAlternationViolation(d) == d.message[1] = "Expected "

\* C13: for a document with nabc-lines > 0 and an alternation violation, the
\* violation the server publishes has severity Error when
\* strictAlternationChecking is true and Warning when it is false.
C13_StrictSelectsSeverity ==
  (/\ srvPc = "done"
   /\ parseResult.hasAst
   /\ NabcConfigOf(astHeaders).enabled
   /\ Len(validateAlternation(astSyllables, NabcConfigOf(astHeaders))) > 0)
    => /\ \E k \in 1..Len(published) : IsAlternationViolation(published[k])
       /\ \A k \in 1..Len(published) :
            IsAlternationViolation(published[k]) =>
              published[k].severity = IF settings.strictAlternationChecking THEN 1 ELSE 2

\* the findings of the parser passes and of the validator passes that the
\* settings enable, over the whole parsed document
ParserFindings ==
  parserValidateHeaders(astHeaders)
    \o validateAlternation(astSyllables, NabcConfigOf(astHeaders))
    \o validateNotation(astHeaders, astSyllables)
    \o validateWarnings(astSyllables)

ValidatorFindings ==
  validatorValidateHeaders(astHeaders)
    \o (IF settings.enableNabcLinesValidation /\ NabcConfigOf(astHeaders).enabled
        THEN validatorValidateAlternation(astHeaders, astSyllables,
                                          settings.strictAlternationChecking)
        ELSE <<>>)
    \o (IF settings.enableSemanticValidation THEN validateMusicNotation(astSyllables) ELSE <<>>)
    \o validateSyllableStructure(astSyllables)

IsPublished(f) ==
  \E k \in 1..Len(published) :
    published[k].message = f.message /\ published[k].range = f.range

NothingThrown ==
  /\ parseResult.hasAst
  /\ \A k \in 1..Len(validated) : validated[k].message[1] # "Validation error: "

\* C14: no early abort: the diagnostics produced for a document contain the
\* findings of every pass of the parser and of the validator over the whole
\* document, even when some pass has reported an Error (documents whose
\* findings fit within maxNumberOfProblems, no exception thrown).
C14_NoEarlyAbort ==
  (/\ srvPc = "done"
   /\ NothingThrown
   /\ Len(ParserFindings) + Len(ValidatorFindings) <= settings.maxNumberOfProblems)
    => /\ \A k \in 1..Len(ParserFindings) : IsPublished(ParserFindings[k])
       /\ \A k \in 1..Len(ValidatorFindings) : IsPublished(ValidatorFindings[k])

IsPrefix(xs, ys) == Len(xs) <= Len(ys) /\ xs = SubSeq(ys, 1, Len(xs))

\* C15: nothing propagates out of parse or validate: parse ends with a
\* ParseResult, which after an internal throw is success = false with one
\* Error entry describing the failure; validate ends with a diagnostic list,
\* which after an internal throw is what was collected so far plus one Error
\* entry describing the failure.
C15_NeverThrows ==
  /\ srvPc # "exception"
  /\ (srvPc \in {"parsed", "done"} \/ Len(validated) > 0) =>
       \/ parseResult = [success |-> ~HasError(ParserFindings), hasAst |-> TRUE,
                         errors |-> ParserFindings]
       \/ /\ ~parseResult.hasAst
          /\ ~parseResult.success
          /\ Len(parseResult.errors) = 1
          /\ parseResult.errors[1].severity = 1
          /\ parseResult.errors[1].message[1] = "Fallback parse error: "
  /\ (srvPc = "validated") =>
       \/ validated = ValidatorFindings
       \/ /\ Len(validated) >= 1
          /\ IsPrefix(SubSeq(validated, 1, Len(validated) - 1), ValidatorFindings)
          /\ validated[Len(validated)].severity = 1
          /\ validated[Len(validated)].message[1] = "Validation error: "

\* the music pass threw after the header findings were collected: validate
\* returned them with the Error entry, and the server sent the list
C15_Witness ==
  /\ srvPc = "done"
  /\ parseResult.success
  /\ Len(published) >= 2
  /\ published[Len(published)].message[1] = "Validation error: "

\* a header line: not empty, not a comment, with a ':' after its first character
IsHeaderLine(line) ==
  LET t == Trim(line)
  IN Len(t) > 0 /\ t[1] # "%" /\ \E p \in 2..Len(t) : t[p] = ":"

\* the numbers of the header lines before the first '%%' line, all lines when
\* there is none
HeaderLineNumbers ==
  { i \in 1..Len(lines) :
      /\ IsHeaderLine(lines[i])
      /\ \A j \in 1..i : Trim(lines[j]) # <<"%", "%">> }

IsDuplicateWarning(e) == e.message[1] = "several "

\* C16: the header list holds every header line before the first '%%' in
\* source order, and for a name that occurs k times (case-insensitively)
\* validateHeaders emits exactly k-1 Warnings 'several <name> definitions
\* found, ...', one at each occurrence after the first; warnings alone never
\* make parse unsuccessful.
C16_DuplicatesKeptAndFlagged ==
  (srvPc = "parsed" /\ parseResult.hasAst) =>
    LET dups == SelectSeq(parseResult.errors, IsDuplicateWarning)
        Later == { k \in 1..Len(astHeaders) :
                     \E j \in 1..(k - 1) :
                       ToLowerCase(astHeaders[j].name) = ToLowerCase(astHeaders[k].name) }
    IN /\ Len(astHeaders) = Cardinality(HeaderLineNumbers)
       /\ \A k \in 1..Len(astHeaders) :
            /\ astHeaders[k].range \in HeaderLineNumbers
            /\ k > 1 => astHeaders[k - 1].range < astHeaders[k].range
       /\ Len(dups) = Cardinality(Later)
       /\ \A k \in Later :
            Len(SelectSeq(dups, LAMBDA e : e.range = astHeaders[k].range)) = 1
       /\ \A k \in 1..Len(dups) :
            /\ dups[k].severity = 2
            /\ dups[k].message[3] =
                 " definitions found, only the last will be taken into consideration"
            /\ \E j \in Later : /\ astHeaders[j].range = dups[k].range
                               /\ astHeaders[j].name = dups[k].message[2]
       /\ (\A k \in 1..Len(parseResult.errors) : parseResult.errors[k].severity # 1)
            => parseResult.success

\* name:T; and NAME:U; before '%%': two headers, one warning at line 2, and
\* parse is successful
C16_Witness ==
  /\ srvPc = "parsed"
  /\ parseResult.success
  /\ Len(astHeaders) = 2
  /\ astHeaders[1].name = <<"n","a","m","e">>
  /\ astHeaders[2].name = <<"N","A","M","E">>
  /\ Len(SelectSeq(parseResult.errors, IsDuplicateWarning)) = 1
  /\ SelectSeq(parseResult.errors, IsDuplicateWarning)[1].range = 2

\* C18: for a document with no '%%' line the splitter raises no error for the
\* missing separator and the body is empty: the parsed document has zero
\* syllables, whatever groups the lines contain.
C18_NoSeparatorEmptyBody ==
  (srvPc = "parsed" /\ parseResult.hasAst /\ \A i \in 1..Len(lines) : Trim(lines[i]) # <<"%", "%">>)
    => astSyllables = <<>>

\* some two letters a-p (either case) of the content differ in value by more than 7
HasLargePair(content) ==
  \E i, j \in 1..Len(content) :
    /\ ToLowerChar(content[i]) \in AToP
    /\ ToLowerChar(content[j]) \in AToP
    /\ CharCode(ToLowerChar(content[i])) - CharCode(ToLowerChar(content[j])) > 7

\* the large-ambitus warnings that the warnings pass reported on syllable k
AmbitusWarningsOn(k) ==
  LET IsAmb(e) == e.message = LARGE_AMBITUS_WARNING /\ e.range = astSyllables[k].range
  IN SelectSeq(allErrors, IsAmb)

\* C21: for every syllable the warnings pass emits exactly one large-ambitus
\* Warning when some two pitch letters of its group differ by more than 7,
\* and none otherwise.
C21_OneAmbitusWarningPerSyllable ==
  srvPc = "parserReturn" =>
    \A k \in 1..Len(astSyllables) :
      /\ Len(AmbitusWarningsOn(k)) = (IF HasLargePair(astSyllables[k].music) THEN 1 ELSE 0)
      /\ \A n \in 1..Len(AmbitusWarningsOn(k)) : AmbitusWarningsOn(k)[n].severity = 2

\* the highest stack index holding an opener of the name (its most recently
\* opened instance), 0 for none
RECURSIVE LastIndexOf(_, _, _)
LastIndexOf(stack, name, k) ==
  IF k = 0 THEN 0
  ELSE IF stack[k].tag = name THEN k
  ELSE LastIndexOf(stack, name, k - 1)

\* the tag that the next iteration of the scan handles is a white-listed
\* closer that differs from the top of the stack and has an opener deeper
CrossNestingCloser ==
  /\ tagPc = "scan"
  /\ tsyl <= Len(texts)
  /\ Len(texts[tsyl]) > 0
  /\ LET m == NextTag(texts[tsyl], lastIndex)
     IN /\ m.found
        /\ m.closing
        /\ IsValidTag(m.name)
        /\ Len(tagStack) > 0
        /\ tagStack[Len(tagStack)].tag # m.name
        /\ LastIndexOf(tagStack, m.name, Len(tagStack)) > 0

\* C24: a closing tag that does not match the top of the stack but has an
\* opener deeper is matched with the most recently opened such opener:
\* unclosed_tag is emitted for exactly the entries above it, top first, that
\* entry and everything above it are removed, and every entry below it stays.
C24_NearestOpenerRepair ==
  [][ (CrossNestingCloser /\ tsyl' = tsyl /\ lastIndex' # lastIndex) =>
        LET m == NextTag(texts[tsyl], lastIndex)
            j == LastIndexOf(tagStack, m.name, Len(tagStack))
        IN /\ tagStack' = SubSeq(tagStack, 1, j - 1)
           /\ tagErrors' = tagErrors \o
                [k \in 1..(Len(tagStack) - j) |->
                   TagError(UnclosedTagMessage(tagStack[Len(tagStack) - k + 1].tag),
                            tagStack[Len(tagStack) - k + 1].syllable)] ]_vars

\* the white-listed tags that the scan has handled so far: those of the
\* syllables before tsyl and those of the current text before lastIndex
HandledTags ==
  LET before == WhitelistedTags(SubSeq(texts, 1, tsyl - 1))
      current == IF tsyl <= Len(texts)
                 THEN WhitelistedTags(<<SubSeq(texts[tsyl], 1, lastIndex - 1)>>)
                 ELSE <<>>
  IN before \o current

OpenersOf(tags) == LET IsOpen(t) == ~t.closing IN SelectSeq(tags, IsOpen)
ClosersOf(tags) == LET IsClose(t) == t.closing IN SelectSeq(tags, IsClose)

UnclosedReports ==
  LET IsU(e) == e.message[1] = UNCLOSED_TAG_PREFIX IN SelectSeq(tagErrors, IsU)
UnmatchedReports ==
  LET IsM(e) == e.message[1] = UNMATCHED_CLOSING_TAG_PREFIX IN SelectSeq(tagErrors, IsM)

\* C28: tag accounting. Every closer is either reported as
\* unmatched_closing_tag or removes exactly one opener without a report (by
\* a pop at the top or as the match of a cross-nesting closer); every handled
\* opener is still on the stack, was removed by such a closer, or was
\* reported as unclosed_tag once. So unclosed_tag reports never exceed the
\* openers and unmatched_closing_tag reports never exceed the closers.
C28_TagAccounting ==
  tagPc \in {"scan", "remaining", "done"} =>
    LET opened == Len(OpenersOf(HandledTags))
        closed == Len(ClosersOf(HandledTags))
        onStack == IF tagPc = "done" THEN 0 ELSE Len(tagStack)
    IN /\ Len(UnclosedReports) <= opened
       /\ Len(UnmatchedReports) <= closed
       /\ Len(tagErrors) = Len(UnclosedReports) + Len(UnmatchedReports)
       /\ opened = onStack + (closed - Len(UnmatchedReports)) + Len(UnclosedReports)

\* a finished scan in which one opener was popped by its closer, one was
\* removed as the match of a cross-nesting closer or reported as unclosed, and
\* one closer was reported as unmatched
C28_Witness ==
  /\ tagPc = "done"
  /\ Len(OpenersOf(HandledTags)) = 2
  /\ Len(ClosersOf(HandledTags)) = 2
  /\ Len(UnclosedReports) = 1
  /\ Len(UnmatchedReports) = 1

\* C25: no diagnostic is dropped before the cap: every entry that parse()
\* returned for the document, its Warning entries included, is among the
\* diagnostics the server reports whenever the total is within
\* maxNumberOfProblems, whether or not parse succeeded.
C25_ParseEntriesReported ==
  (/\ srvPc = "done"
   /\ NothingThrown
   /\ Len(parseResult.errors) + Len(validated) <= settings.maxNumberOfProblems)
    => \A k \in 1..Len(parseResult.errors) :
         \E j \in 1..Len(published) :
           /\ published[j].message = parseResult.errors[k].message
           /\ published[j].range = parseResult.errors[k].range

\* the list that the reported diagnostics were made from: the entries of the
\* parse result when parse failed, the validator's list otherwise
ProducedList == IF parseResult.success THEN validated ELSE parseResult.errors

\* C26: the severity of every diagnostic the server reports equals the
\* severity that the producing rule assigned, so a Warning entry of the parse
\* result is never reported with severity Error.
C26_SeverityPreserved ==
  srvPc = "done" =>
    \A k \in 1..Len(published) :
      k <= Len(ProducedList) => published[k].severity = ProducedList[k].severity

----------------------------------------------------------------------------
(* Properties of the NABC validation (checked under SpecNabc) *)

\* the descriptors of the snippet that validateNABCSnippet is working on
CurrentDescriptors ==
  SplitWhite(parseSpacingAdjustments(nabcMatches[nabcIdx]).remainder, <<>>)

\* the two-letter components of a descriptor: the first two letters of each
\* of its parts joined by '!'
ComponentsOfDescriptor(descriptor) ==
  LET parts == SplitChar(descriptor, "!", <<>>)
  IN [i \in 1..Len(parts) |-> SubSeq(parts[i], 1, 2)]

\* a neume made of n >= 2 two-letter components joined by '!'
IsCompoundDescriptor(descriptor) ==
  LET parts == SplitChar(descriptor, "!", <<>>)
  IN Len(parts) >= 2 /\ \A i \in 1..Len(parts) : HasGlyphCode(parts[i])

NabcDiagnosticsWithCode(c) ==
  LET HasC(d) == d.code = c IN SelectSeq(nabcDiagnostics, HasC)

\* C22: for a neume of n >= 2 two-letter components joined by '!', the
\* parsed complex glyph holds all n components in order, each component is
\* checked against the glyph catalog (unknown-glyph Error for a code the
\* catalog lacks, font-incompatibility Error for a code not of the active
\* font), and a compound neume without pitch descriptor gets the
\* compound-without-pitch Warning.
C22_CompoundComponents ==
  (/\ nabcPc = "convert"
   /\ Len(CurrentDescriptors) = 1
   /\ IsCompoundDescriptor(CurrentDescriptors[1]))
    => LET cs == ComponentsOfDescriptor(CurrentDescriptors[1])
           unknown == { i \in 1..Len(cs) : cs[i] \notin NABC_BASIC_GLYPHS }
           otherFont == { i \in 1..Len(cs) :
                            /\ cs[i] \in NABC_BASIC_GLYPHS
                            /\ NabcContextFont \notin GlyphFontFamilies(cs[i]) }
       IN /\ Len(nabcNeumes) = 1
          /\ nabcNeumes[1].components = cs
          /\ Len(NabcDiagnosticsWithCode("nabc-unknown-glyph")) = Cardinality(unknown)
          /\ Len(NabcDiagnosticsWithCode("nabc-font-incompatibility")) = Cardinality(otherFont)
          /\ Len(NabcDiagnosticsWithCode("nabc-missing-compound-pitch"))
               = (IF Len(nabcNeumes[1].pitch) = 0 THEN 1 ELSE 0)

\* the significant letter that a significant-letter Error names
LetterOfDiagnostic(d) ==
  IF d.code = "nabc-invalid-letter-position" THEN d.message[4] ELSE d.message[2]

LetterErrorCodes ==
  {"nabc-unknown-letter", "nabc-letter-font-incompatibility",
   "nabc-invalid-letter-position", "nabc-tironian-font-error"}

\* a significant-letter Error with the code c was emitted for the letter
HasLetterError(letter, c) ==
  \E n \in 1..Len(nabcDiagnostics) :
    /\ nabcDiagnostics[n].code = c
    /\ LetterOfDiagnostic(nabcDiagnostics[n]) = letter.code

\* the catalog key of an attached letter: its text without the position digit
LetterKey(letter) == SubSeq(letter.code, 1, Len(letter.code) - 1)

\* C23: for every significant letter attached to a neume: no
\* significant-letter Error when its code is in the catalog, the letter is
\* listed for the active font and its position digit is allowed; an
\* unknown-letter Error only when the code is not in the catalog, a font
\* Error only when the font is not listed, an invalid-position Error only
\* when the position is not allowed.
C23_SignificantLetterErrors ==
  nabcPc = "convert" =>
    \A k \in 1..Len(nabcNeumes) :
      \A n \in 1..Len(nabcNeumes[k].significantLetters) :
        LET letter == nabcNeumes[k].significantLetters[n]
            known == LetterKey(letter) \in ALL_SIGNIFICANT_LETTERS
            fontListed == known /\ NabcContextFont \in LetterFontFamilies(LetterKey(letter))
            positionAllowed == known /\ letter.position \in LetterPositions(LetterKey(letter))
        IN /\ (known /\ fontListed /\ positionAllowed) =>
                \A c \in LetterErrorCodes : ~HasLetterError(letter, c)
           /\ HasLetterError(letter, "nabc-unknown-letter") => ~known
           /\ HasLetterError(letter, "nabc-letter-font-incompatibility") => (known /\ ~fontListed)
           /\ HasLetterError(letter, "nabc-invalid-letter-position") => (known /\ ~positionAllowed)

\* the non-empty snippets of the group at an index i >= 1, in order
NabcSnippetsOfGroup(content) ==
  LET NotEmpty(x) == Len(x) > 0
  IN SelectSeq(Tail(parseNoteGroups(content)), NotEmpty)

\* C27: when nabc-lines > 0 the NABC validator runs over every NABC snippet
\* of the group: each non-empty snippet at an index i >= 1 is passed to
\* validateNABCSnippet exactly once, the last snippet of the group and
\* adjacent NABC snippets included, and snippet 0 is never passed.
C27_EveryNabcSnippetValidated ==
  (notationConfig.enabled /\ nabcPc \in {"forEach", "neumes", "warnings", "convert", "done"})
    => nabcMatches = NabcSnippetsOfGroup(nabcContent)

----------------------------------------------------------------------------
(* Properties of the document life cycle (checked under SpecLife) *)

\* C29: the settings cache holds entries only for open documents: every key
\* of documentSettings is the URI of a document that is currently open.
C29_CacheOnlyOpenDocuments == DOMAIN documentSettings \subseteq Range(documents)

\* a document was closed while its validation was suspended, another one is
\* open and cached
C29_Witness ==
  /\ hasConfigurationCapability
  /\ Len(documents) = 1
  /\ DOMAIN documentSettings = {documents[1]}
  /\ \E k \in 1..Len(awaiting) : awaiting[k].uri \notin Range(documents)

\* C30: once a document has been closed and not re-opened, the server sends
\* no further publishDiagnostics for its URI: every sendDiagnostics is for
\* a document that is open when it is sent.
C30_NoPublishAfterClose ==
  [][ \A k \in (Len(sentDiagnostics) + 1)..Len(sentDiagnostics') :
        sentDiagnostics'[k] \in Range(documents') ]_vars

====
